---- MODULE Spec2Model ----
(***************************************************************************)
(* A model of lindas-hydro-scraper: the append-only CSV store (CsvHandler), *)
(* the retrying SPARQL client (SparqlClient) and the result mapper          *)
(* (DataProcessor with the Measurement model).                              *)
(*                                                                          *)
(* Python values are modelled as follows.  An Optional value is a sequence  *)
(* of length 0 (None, also pandas' NaN) or 1 (the value).  A str on which   *)
(* the code does substring work (a timestamp text, a predicate URI) is a    *)
(* sequence of tokens; every other str is a TLA+ string.                    *)
(***************************************************************************)
EXTENDS Integers, Sequences, FiniteSets, TLC

VARIABLES
    \* the file at csv_path and the CsvHandler instance
    fileExists,      \* csv_path.exists()
    fileLines,       \* the file's lines, each a tuple of cells
    constructed,     \* a CsvHandler instance exists
    processed_keys,  \* CsvHandler._processed_keys
    \* the last call on the store as its caller observes it
    lastOp,          \* "none", "init", "save", "remove_duplicates", "count"
    lastArg,         \* the measurements passed to the last save_measurements
    lastRet,         \* the value the last call returned
    preLines,        \* fileLines when the last call began
    preKeys,         \* processed_keys when the last call began
    repeated,        \* the last call was save_measurements with the argument of
                     \* the save_measurements call right before it
    wrote,           \* the last call opened the file for writing
    ioFailed,        \* a save_measurements of this instance hit an I/O error
    lastExc,         \* the exception raised inside the last call, "" if none
    lastRaised,      \* the exception that left the last call, "" if it returned
    \* the SparqlClient instance and its execute_query call
    max_retries,     \* SparqlClient.max_retries
    initial_delay,   \* SparqlClient.initial_delay, in milliseconds
    cpc,             \* "idle", "running" (inside the loop) or "done"
    attempt,         \* the loop variable of execute_query
    retry_delay,     \* the local retry_delay, in milliseconds
    sleeps,          \* the arguments of the time.sleep calls of this call
    queries,         \* the number of _client.query() calls of this call
    outcomes,        \* what each _client.query().convert() of this call did
    cPrev,           \* the attempt count and the retry_delay the call before
                     \* this one ended with, None for the first call
    result,          \* what execute_query returned
    propagated,      \* execute_query ended by raising to its caller
    cTest,           \* test_connection: "" (not called), "running" (inside its
                     \* execute_query), "True", "False", or "KeyboardInterrupt"
                     \* when that left it
    \* one DataProcessor.process_results call
    mpc,             \* "build" (the response is being put together) or "mapped"
    mResponse,       \* the results argument
    mStation,        \* the station_id argument
    mOutcome,        \* what the call did: a Measurement, None, or a raise
    mSaved,          \* the timestamp texts of the responses whose Measurement
                     \* the caller passed to save_measurements, in call order
    \* one SparqlQueryBuilder.build_query call
    bpc,             \* "idle", "params" (a QueryParameters exists) or "built"
    bParams,         \* the QueryParameters passed to build_query
    bOutcome,        \* what the call did: a query, or a raise
    \* one execution of main() with its LindasHydroScraper
    rpc,             \* where main() stands: "start", "settings", "scraper",
                     \* "loop", "collected", "ran", "slept", "cleaned", "exited"
    rSites,          \* settings.site_codes
    rNext,           \* the position in site_codes of the next loop iteration
    rMeasurements,   \* run's list measurements: the positions of their stations
    rErrors,         \* run's counter errors
    rEvents,         \* the calls made on the collaborators, in their order
    rEnding,         \* how main() ended: "", "completed", "KeyboardInterrupt",
                     \* "Exception"
    rExit            \* the exit status of the process, -1 while it runs

storeVars == <<fileExists, fileLines, constructed, processed_keys, lastOp,
               lastArg, lastRet, preLines, preKeys, repeated, wrote, ioFailed,
               lastExc, lastRaised>>

clientVars == <<max_retries, initial_delay, cpc, attempt, retry_delay, sleeps,
                queries, outcomes, result, propagated, cTest, cPrev>>

mapperVars == <<mpc, mResponse, mStation, mOutcome, mSaved>>

builderVars == <<bpc, bParams, bOutcome>>

runVars == <<rpc, rSites, rNext, rMeasurements, rErrors, rEvents, rEnding, rExit>>

vars == <<storeVars, clientVars, mapperVars, builderVars, runVars>>

\* What the calls on one component leave alone.
exceptStore == <<clientVars, mapperVars, builderVars, runVars>>
exceptClient == <<storeVars, mapperVars, builderVars, runVars>>
exceptMapper == <<storeVars, clientVars, builderVars, runVars>>
exceptBuilder == <<storeVars, clientVars, mapperVars, runVars>>
exceptRun == <<storeVars, clientVars, mapperVars, builderVars>>

(***************************************************************************)
(* Bounds of the model.                                                    *)
(***************************************************************************)
MaxBatch == 2       \* longest list passed to save_measurements
MaxInitRows == 1    \* most data rows in the file before the first instance
MaxFileRows == 2    \* save_measurements is not called on a file of more lines
MaxDedupRows == 3   \* most data rows in a file given to remove_duplicates
MaxAttempts == 4    \* largest max_retries a client is configured with
MaxBindings == 3    \* most bindings in a response given to the mapper
MaxParams == 2      \* longest parameters list passed to QueryParameters
MaxSites == 2       \* longest list of configured stations
MaxSaves == 2       \* most mapped Measurements one store instance is given

None == <<>>
Some(x) == <<x>>

RECURSIVE SeqsUpTo(_, _)
SeqsUpTo(S, n) ==
    IF n = 0 THEN {<<>>}
    ELSE LET shorter == SeqsUpTo(S, n - 1)
         IN  shorter \cup {Append(s, x) : s \in {t \in shorter : Len(t) = n - 1}, x \in S}

(***************************************************************************)
(* Measurement (models/measurement.py).  A datetime is its wall-clock text *)
(* and its UTC offset text ("" for a naive datetime); isoformat() joins    *)
(* them.  A Decimal is kept as the text str() gives for it.                *)
(***************************************************************************)
CSV_COLUMNS ==
    <<"timestamp", "station_id", "discharge", "water_level", "danger_level",
      "water_temperature", "is_liter">>

isoformat(dt) == dt.wall \o dt.off

BoolLower(b) == IF b THEN "true" ELSE "false"

unique_key(m) == isoformat(m.timestamp) \o "_" \o m.station_id

to_csv_dict(m) ==
    [timestamp |-> Some(isoformat(m.timestamp)),
     station_id |-> Some(m.station_id),
     discharge |-> IF m.discharge # None THEN Some(m.discharge[1].dec) ELSE None,
     water_level |-> IF m.water_level # None THEN Some(m.water_level[1].dec) ELSE None,
     danger_level |-> IF m.danger_level # None THEN Some(ToString(m.danger_level[1])) ELSE None,
     water_temperature |->
         IF m.water_temperature # None THEN Some(m.water_temperature[1].dec) ELSE None,
     is_liter |-> IF m.is_liter # None THEN Some(BoolLower(m.is_liter[1])) ELSE None]

\* A check that counts the danger level and the liter flag as measurements.
HasMeasurementsAnyField(m) ==
    \E f \in {"discharge", "water_level", "water_temperature", "danger_level", "is_liter"} :
        m[f] # None

has_measurements(m) ==
    \E f \in {"discharge", "water_level", "water_temperature"} : m[f] # None

(***************************************************************************)
(* The csv module and pandas, as CsvHandler uses them.                     *)
(***************************************************************************)
\* A writer that spells a missing value out.
DictWriterRowNoneText(d) ==
    [i \in 1..Len(CSV_COLUMNS) |->
        IF d[CSV_COLUMNS[i]] = None THEN "None" ELSE d[CSV_COLUMNS[i]][1]]

\* csv.DictWriter(f, fieldnames=CSV_COLUMNS).writerow(d): the cells in column
\* order, None written as the empty cell.
DictWriterRow(d) ==
    [i \in 1..Len(CSV_COLUMNS) |->
        IF d[CSV_COLUMNS[i]] = None THEN "" ELSE d[CSV_COLUMNS[i]][1]]

\* Cell texts pandas.read_csv reads as NaN (its default na_values).
PandasNaValues == {"", "NA", "N/A", "NaN", "nan", "null", "NULL", "None", "<NA>"}

\* pd.read_csv(path, dtype=str): the first line names the columns whatever it
\* holds, every further line is a row; an empty file raises EmptyDataError.
read_csv(lines) ==
    IF lines = <<>>
    THEN [raised |-> TRUE, columns |-> <<>>, rows |-> <<>>]
    ELSE [raised |-> FALSE,
          columns |-> lines[1],
          rows |-> [i \in 1..(Len(lines) - 1) |->
                      [j \in 1..Len(lines[i + 1]) |->
                          IF lines[i + 1][j] \in PandasNaValues
                          THEN None ELSE Some(lines[i + 1][j])]]]

HasColumn(df, name) == \E j \in 1..Len(df.columns) : df.columns[j] = name

\* row.get(name): None when the frame has no such column.
RowGet(df, row, name) ==
    IF HasColumn(df, name)
    THEN row[CHOOSE j \in 1..Len(df.columns) : df.columns[j] = name]
    ELSE None

\* The set comprehension of _load_processed_keys and remove_duplicates.
KeysOfFrame(df) ==
    {RowGet(df, df.rows[i], "timestamp")[1] \o "_" \o RowGet(df, df.rows[i], "station_id")[1] :
        i \in {k \in 1..Len(df.rows) :
                  /\ RowGet(df, df.rows[k], "timestamp") # None
                  /\ RowGet(df, df.rows[k], "station_id") # None}}

RECURSIVE SelectRows(_, _, _)
SelectRows(rows, keep, i) ==
    IF i > Len(rows) THEN <<>>
    ELSE (IF i \in keep THEN <<rows[i]>> ELSE <<>>) \o SelectRows(rows, keep, i + 1)

\* df.drop_duplicates(subset=["timestamp", "station_id"], keep="first"); NaN
\* equals NaN here.  The caller has checked that both columns exist.
drop_duplicates(df) ==
    LET pair(i) == <<RowGet(df, df.rows[i], "timestamp"),
                     RowGet(df, df.rows[i], "station_id")>>
        keep == {i \in 1..Len(df.rows) : \A j \in 1..(i - 1) : pair(j) # pair(i)}
    IN  [df EXCEPT !.rows = SelectRows(df.rows, keep, 1)]

\* df.to_csv(path, index=False): the column names, then the rows, NaN empty.
to_csv(df) ==
    <<df.columns>> \o
    [i \in 1..Len(df.rows) |->
        [j \in 1..Len(df.rows[i]) |->
            IF df.rows[i][j] = None THEN "" ELSE df.rows[i][j][1]]]

(***************************************************************************)
(* The Measurements and files the store is exercised with.                 *)
(***************************************************************************)
DtMorning == [wall |-> "2024-01-15T10:30:00", off |-> "+00:00"]
DtLater == [wall |-> "2024-01-15T10:40:00", off |-> "+00:00"]

Measurement(station, dt, discharge) ==
    [station_id |-> station, timestamp |-> dt, discharge |-> discharge,
     water_level |-> None, water_temperature |-> None, danger_level |-> None,
     is_liter |-> None]

\* Two Measurements with one key and different discharge, and one of the
\* same station ten minutes later.
StoreMeasurements ==
    {Measurement("2044", DtMorning, Some([dec |-> "123.45"])),
     Measurement("2044", DtMorning, Some([dec |-> "99.9"])),
     Measurement("2044", DtLater, Some([dec |-> "123.45"]))}

\* Measurements that earlier runs may have stored: those above, and one of a
\* station whose id pandas reads back as NaN.
StoredBefore ==
    StoreMeasurements \cup {Measurement("NA", DtLater, Some([dec |-> "123.45"]))}

Batches == SeqsUpTo(StoreMeasurements, MaxBatch)

RowOf(m) == DictWriterRow(to_csv_dict(m))

\* The file before the first instance: absent, present with no content, or
\* the header and rows that earlier runs wrote.
InitialFiles ==
    {[exists |-> FALSE, lines |-> <<>>], [exists |-> TRUE, lines |-> <<>>]} \cup
    {[exists |-> TRUE, lines |-> <<CSV_COLUMNS>> \o rows] :
        rows \in SeqsUpTo({RowOf(m) : m \in StoredBefore}, MaxInitRows)}

(***************************************************************************)
(* CsvHandler (utils/csv_handler.py).                                      *)
(***************************************************************************)
\* _ensure_csv_exists: the header is written only when the file is absent.
EnsureCsvExists(exists, lines) ==
    IF ~exists THEN <<CSV_COLUMNS>> ELSE lines

\* A constructor that does not load the keys of the rows already stored.
LoadProcessedKeysNothing(lines) == {}

\* _load_processed_keys, given the file as _ensure_csv_exists left it.
LoadProcessedKeys(lines) ==
    IF Len(lines) > 0    \* st_size > 0
    THEN LET df == read_csv(lines)
         IN  IF df.raised THEN {} ELSE KeysOfFrame(df)
    ELSE {}

\* CsvHandler.__init__
Construct ==
    LET lines == EnsureCsvExists(fileExists, fileLines)
    IN  /\ fileExists' = TRUE
        /\ fileLines' = lines
        /\ constructed' = TRUE
        /\ processed_keys' = LoadProcessedKeys(lines)
        /\ lastOp' = "init"
        /\ lastArg' = <<>>
        /\ lastRet' = 0
        /\ preLines' = fileLines
        /\ preKeys' = {}
        /\ repeated' = FALSE
        /\ wrote' = ~fileExists
        /\ ioFailed' = FALSE
        /\ lastExc' = ""
        /\ lastRaised' = ""

\* A loop body that puts a new record in front of those staged before it.
SaveLoopBodyPrepends(st, m) ==
    IF unique_key(m) \notin st.keys
    THEN [new |-> <<to_csv_dict(m)>> \o st.new, keys |-> st.keys \cup {unique_key(m)}]
    ELSE st

\* A loop body that stages a new record without remembering its key.
SaveLoopBodyNoAdd(st, m) ==
    IF unique_key(m) \notin st.keys
    THEN [new |-> Append(st.new, to_csv_dict(m)), keys |-> st.keys]
    ELSE st

\* A loop body that stages every record, duplicate or not.
SaveLoopBodyNoCheck(st, m) ==
    [new |-> Append(st.new, to_csv_dict(m)), keys |-> st.keys \cup {unique_key(m)}]

\* One iteration of the loop of save_measurements over its argument.
SaveLoopBody(st, m) ==
    IF unique_key(m) \notin st.keys
    THEN [new |-> Append(st.new, to_csv_dict(m)), keys |-> st.keys \cup {unique_key(m)}]
    ELSE st

RECURSIVE SaveLoop(_, _)
SaveLoop(ms, st) ==
    IF ms = <<>> THEN st ELSE SaveLoop(Tail(ms), SaveLoopBody(st, Head(ms)))

\* A return of the number of records passed in instead of those written.
SaveReturnInputCount(measurements, new_records, raised) ==
    IF raised THEN 0 ELSE Len(measurements)

\* What save_measurements returns: 0 from the except branch, else
\* len(new_records).
SaveReturn(measurements, new_records, raised) ==
    IF raised THEN 0 ELSE Len(new_records)

\* A handler that catches I/O errors only.
ExceptOSError(exc) == exc = "OSError"

\* "except Exception" of the store's methods: it catches the errors of the
\* file system, of pandas and of the frame lookups, not a KeyboardInterrupt.
ExceptException(exc) == exc # "KeyboardInterrupt"

\* CsvHandler.save_measurements(measurements).  io = "fail": the with-block
\* raises OSError; the batch goes out in one buffered write, so a failed
\* write is modelled as leaving the file as it was.
SaveMeasurements(measurements, io) ==
    /\ constructed
    /\ LET staged == SaveLoop(measurements, [new |-> <<>>, keys |-> processed_keys])
           opens == measurements # <<>> /\ staged.new # <<>>
           exc == IF opens /\ io = "fail" THEN "OSError" ELSE ""
           raised == exc # ""
           caught == raised /\ ExceptException(exc)
       IN  /\ io = "fail" => opens
           /\ processed_keys' = staged.keys
           /\ fileLines' =
                 IF opens /\ ~raised
                 THEN fileLines \o [i \in 1..Len(staged.new) |-> DictWriterRow(staged.new[i])]
                 ELSE fileLines
           /\ fileExists' = (fileExists \/ (opens /\ ~raised))
           /\ lastRet' = IF raised /\ ~caught THEN lastRet
                         ELSE SaveReturn(measurements, staged.new, caught)
           /\ wrote' = opens
           /\ ioFailed' = (ioFailed \/ raised)
           /\ lastExc' = exc
           /\ lastRaised' = IF caught THEN "" ELSE exc
    /\ lastOp' = "save"
    /\ lastArg' = measurements
    /\ preLines' = fileLines
    /\ preKeys' = processed_keys
    /\ repeated' = (lastOp = "save" /\ lastArg = measurements)
    /\ UNCHANGED constructed

\* A resynchronization of the index on every call.
ResyncKeysAlways(removed_count, cleaned, keys) == KeysOfFrame(cleaned)

\* An index that remove_duplicates never touches.
ResyncKeysNever(removed_count, cleaned, keys) == keys

\* remove_duplicates sets _processed_keys from the cleaned frame only inside
\* "if removed_count > 0".
ResyncKeys(removed_count, cleaned, keys) ==
    IF removed_count > 0 THEN KeysOfFrame(cleaned) ELSE keys

\* The exception raised inside the try block of remove_duplicates: OSError
\* when the file cannot be read or rewritten (io = "fail"), EmptyDataError
\* from read_csv on a file without lines, KeyError from drop_duplicates on a
\* frame without the two key columns.
RemoveDuplicatesError(df, io) ==
    IF io = "fail" THEN "OSError"
    ELSE IF df.raised THEN "EmptyDataError"
    ELSE IF ~(HasColumn(df, "timestamp") /\ HasColumn(df, "station_id")) THEN "KeyError"
    ELSE ""

\* CsvHandler.remove_duplicates().
RemoveDuplicates(io) ==
    /\ constructed
    /\ LET df == read_csv(fileLines)
           exc == IF fileExists THEN RemoveDuplicatesError(df, io) ELSE ""
           caught == exc # "" /\ ExceptException(exc)
           cleaned == drop_duplicates(df)
           removed_count ==
               IF fileExists /\ exc = "" THEN Len(df.rows) - Len(cleaned.rows) ELSE 0
       IN  /\ io = "fail" => fileExists
           /\ fileLines' = IF removed_count > 0 THEN to_csv(cleaned) ELSE fileLines
           /\ processed_keys' =
                 IF fileExists /\ exc = ""
                 THEN ResyncKeys(removed_count, cleaned, processed_keys)
                 ELSE processed_keys
           /\ wrote' = (removed_count > 0)
           /\ lastRet' = IF exc # "" /\ ~caught THEN lastRet ELSE removed_count
           /\ lastExc' = exc
           /\ lastRaised' = IF caught THEN "" ELSE exc
    /\ lastOp' = "remove_duplicates"
    /\ lastArg' = <<>>
    /\ preLines' = fileLines
    /\ preKeys' = processed_keys
    /\ repeated' = FALSE
    /\ UNCHANGED <<fileExists, constructed, ioFailed>>

\* CsvHandler.get_record_count()
GetRecordCount(io) ==
    /\ constructed
    /\ LET df == read_csv(fileLines)
           exc == IF ~fileExists THEN ""
                  ELSE IF io = "fail" THEN "OSError"
                  ELSE IF df.raised THEN "EmptyDataError" ELSE ""
           caught == exc # "" /\ ExceptException(exc)
       IN  /\ io = "fail" => fileExists
           /\ lastRet' = IF exc # "" /\ ~caught THEN lastRet
                         ELSE IF fileExists /\ exc = "" THEN Len(df.rows) ELSE 0
           /\ lastExc' = exc
           /\ lastRaised' = IF caught THEN "" ELSE exc
    /\ lastOp' = "count"
    /\ lastArg' = <<>>
    /\ preLines' = fileLines
    /\ preKeys' = processed_keys
    /\ repeated' = FALSE
    /\ wrote' = FALSE
    /\ UNCHANGED <<fileExists, fileLines, constructed, processed_keys, ioFailed>>

IoOutcomes == {"ok", "fail"}

\* The mapper is not used while the store or the client is exercised.
MapperUnused ==
    /\ mpc = "build"
    /\ mResponse = <<>>
    /\ mStation = ""
    /\ mOutcome = <<>>
    /\ mSaved = <<>>

\* main() is not executed while a component is exercised by itself.
RunUnused ==
    /\ rpc = "start"
    /\ rSites = <<>>
    /\ rNext = 1
    /\ rMeasurements = <<>>
    /\ rErrors = 0
    /\ rEvents = <<>>
    /\ rEnding = ""
    /\ rExit = -1

\* The query builder is not used while another component is exercised.
BuilderUnused ==
    /\ bpc = "idle"
    /\ bParams = <<>>
    /\ bOutcome = <<>>

\* The client is not used while the store is exercised.
ClientUnused ==
    /\ max_retries = 1
    /\ initial_delay = 1000
    /\ cpc = "idle"
    /\ attempt = 0
    /\ retry_delay = 1000
    /\ sleeps = <<>>
    /\ queries = 0
    /\ outcomes = <<>>
    /\ result = None
    /\ propagated = FALSE
    /\ cTest = ""
    /\ cPrev = None

InitStore ==
    /\ ClientUnused
    /\ MapperUnused
    /\ BuilderUnused
    /\ RunUnused
    /\ \E f \in InitialFiles : fileExists = f.exists /\ fileLines = f.lines
    /\ constructed = FALSE
    /\ processed_keys = {}
    /\ lastOp = "none"
    /\ lastArg = <<>>
    /\ lastRet = 0
    /\ preLines = <<>>
    /\ preKeys = {}
    /\ repeated = FALSE
    /\ wrote = FALSE
    /\ ioFailed = FALSE
    /\ lastExc = ""
    /\ lastRaised = ""

NextStore ==
    \/ Construct /\ UNCHANGED exceptStore
    \/ \E ms \in Batches, io \in IoOutcomes :
          /\ Len(fileLines) <= MaxFileRows
          /\ SaveMeasurements(ms, io)
          /\ UNCHANGED exceptStore
    \/ \E io \in IoOutcomes : RemoveDuplicates(io) /\ UNCHANGED exceptStore
    \/ \E io \in IoOutcomes : GetRecordCount(io) /\ UNCHANGED exceptStore

SpecStore == InitStore /\ [][NextStore]_vars

\* Something outside the program removes the file; remove_duplicates and
\* get_record_count ask csv_path.exists() for this reason.
FileDeleted ==
    /\ constructed
    /\ fileExists
    /\ fileExists' = FALSE
    /\ fileLines' = <<>>
    /\ lastOp' = "deleted"
    /\ lastArg' = <<>>
    /\ repeated' = FALSE
    /\ UNCHANGED <<constructed, processed_keys, lastRet, preLines, preKeys, wrote,
                   ioFailed, lastExc, lastRaised>>

\* The files remove_duplicates is exercised on: as InitialFiles, with more
\* rows, so that some rows share their (timestamp, station_id) pair.
DedupFiles ==
    {[exists |-> FALSE, lines |-> <<>>], [exists |-> TRUE, lines |-> <<>>]} \cup
    {[exists |-> TRUE, lines |-> <<CSV_COLUMNS>> \o rows] :
        rows \in SeqsUpTo({RowOf(m) : m \in StoredBefore}, MaxDedupRows)}

InitDedup ==
    /\ ClientUnused
    /\ MapperUnused
    /\ BuilderUnused
    /\ RunUnused
    /\ \E f \in DedupFiles : fileExists = f.exists /\ fileLines = f.lines
    /\ constructed = FALSE
    /\ processed_keys = {}
    /\ lastOp = "none"
    /\ lastArg = <<>>
    /\ lastRet = 0
    /\ preLines = <<>>
    /\ preKeys = {}
    /\ repeated = FALSE
    /\ wrote = FALSE
    /\ ioFailed = FALSE
    /\ lastExc = ""
    /\ lastRaised = ""

\* The lists save_measurements is given between the remove_duplicates calls:
\* the empty list and every list of one Measurement.
SingleBatches == {<<>>} \cup {<<m>> : m \in StoreMeasurements}

NextDedup ==
    \/ Construct /\ UNCHANGED exceptStore
    \/ \E ms \in SingleBatches, io \in IoOutcomes :
          /\ Len(fileLines) <= MaxDedupRows
          /\ SaveMeasurements(ms, io)
          /\ UNCHANGED exceptStore
    \/ \E io \in IoOutcomes : RemoveDuplicates(io) /\ UNCHANGED exceptStore
    \/ \E io \in IoOutcomes : GetRecordCount(io) /\ UNCHANGED exceptStore
    \/ FileDeleted /\ UNCHANGED exceptStore

SpecDedup == InitDedup /\ [][NextDedup]_vars

(***************************************************************************)
(* JSON values as Python holds them.  A dict is the sequence of its        *)
(* <<key, value>> entries; a str holds its tokens.                         *)
(***************************************************************************)
PyNone == [t |-> "NoneType", v |-> <<>>]
PyStr(tokens) == [t |-> "str", v |-> tokens]
PyList(items) == [t |-> "list", v |-> items]
PyDict(entries) == [t |-> "dict", v |-> entries]

DictHas(d, key) == \E i \in 1..Len(d.v) : d.v[i][1] = key
DictGet(d, key) == d.v[CHOOSE i \in 1..Len(d.v) : d.v[i][1] = key][2]

\* `key in x`: a key of a dict, an item of a list, a substring of a str (a
\* token of it); "raise" (TypeError) for a value that is no container.
PyIn(key, x) ==
    CASE x.t = "dict" -> IF DictHas(x, key) THEN "true" ELSE "false"
      [] x.t = "list" -> IF \E i \in 1..Len(x.v) : x.v[i] = PyStr(<<key>>)
                         THEN "true" ELSE "false"
      [] x.t = "str" -> IF \E i \in 1..Len(x.v) : x.v[i] = key THEN "true" ELSE "false"
      [] OTHER -> "raise"

Binding(predicate, object) ==
    PyDict(<< <<"predicate", PyDict(<< <<"value", PyStr(predicate)>> >>)>>,
              <<"object", PyDict(<< <<"value", PyStr(object)>> >>)>> >>)

ResultsOf(bindings) == PyDict(<< <<"results", PyDict(<< <<"bindings", bindings>> >>)>> >>)

EmptyResults == ResultsOf(PyList(<<>>))

(***************************************************************************)
(* SparqlClient (core/sparql_client.py).                                   *)
(***************************************************************************)
\* A validation that, like the mapper's, takes empty bindings for invalid.
ValidateResultsNonEmpty(results) ==
    IF results.t # "dict" THEN "false"
    ELSE IF ~DictHas(results, "results") THEN "false"
    ELSE IF DictGet(results, "results").t # "dict" THEN "false"
    ELSE IF ~DictHas(DictGet(results, "results"), "bindings") THEN "false"
    ELSE IF DictGet(DictGet(results, "results"), "bindings").t = "list"
            /\ DictGet(DictGet(results, "results"), "bindings").v # <<>>
         THEN "true" ELSE "false"

\* SparqlClient._validate_results: "true", "false", or "raise" when an operand
\* of the and-chain raises TypeError.
ValidateResults(results) ==
    IF results.t # "dict" THEN "false"
    ELSE IF ~DictHas(results, "results") THEN "false"
    ELSE LET section == DictGet(results, "results")
         IN  IF PyIn("bindings", section) # "true" THEN PyIn("bindings", section)
             ELSE IF section.t # "dict" THEN "raise"   \* section["bindings"]
             ELSE IF DictGet(section, "bindings").t = "list" THEN "true" ELSE "false"

\* What one _client.query().convert() can do: return a response, raise
\* SPARQLWrapperException, raise another Exception, or raise a BaseException
\* that is no Exception (KeyboardInterrupt).
SampleBinding ==
    Binding(<<"https://environment.ld.admin.ch/foen/hydro", "/dimension/", "discharge">>,
            <<"123.45">>)

ClientResponses ==
    {PyNone, PyStr(<<"invalid">>), PyList(<<>>), PyDict(<<>>),
     PyDict(<< <<"results", PyDict(<<>>)>> >>),
     PyDict(<< <<"results", PyNone>> >>),
     ResultsOf(PyStr(<<"not_a_list">>)),
     EmptyResults,
     ResultsOf(PyList(<<SampleBinding>>))}

AttemptOutcomes ==
    {[kind |-> "response", response |-> r] : r \in ClientResponses} \cup
    {[kind |-> k, response |-> PyNone] : k \in {"transient", "unexpected", "interrupt"}}

\* A handler that retries a response of invalid shape.
HandlerRetriesInvalid(outcome) ==
    CASE outcome.kind = "response" ->
            IF ValidateResults(outcome.response) = "true" THEN "return" ELSE "retry"
      [] outcome.kind = "transient" -> "retry"
      [] outcome.kind = "unexpected" -> "abort"
      [] OTHER -> "propagate"

\* A handler whose retry clause catches every Exception.
HandlerRetriesUnexpected(outcome) ==
    CASE outcome.kind = "response" ->
            (CASE ValidateResults(outcome.response) = "true" -> "return"
               [] ValidateResults(outcome.response) = "false" -> "invalid"
               [] OTHER -> "retry")
      [] outcome.kind = "transient" -> "retry"
      [] outcome.kind = "unexpected" -> "retry"
      [] OTHER -> "propagate"

\* The branch of execute_query's loop body that an attempt ends in: "return"
\* (return results), "invalid" (return None), "retry" (except
\* SPARQLWrapperException), "abort" (except Exception) or "propagate".
HandlerOf(outcome) ==
    CASE outcome.kind = "response" ->
            (CASE ValidateResults(outcome.response) = "true" -> "return"
               [] ValidateResults(outcome.response) = "false" -> "invalid"
               [] OTHER -> "abort")
      [] outcome.kind = "transient" -> "retry"
      [] outcome.kind = "unexpected" -> "abort"
      [] OTHER -> "propagate"

\* A retry branch that sleeps after the last attempt as well.
ShouldSleepAlways(a, n) == a < n

\* if attempt < self.max_retries - 1
ShouldSleep(a, n) == a < n - 1

\* A backoff that does not grow.
NextDelayConstant(delay) == delay

\* retry_delay *= 2
NextDelay(delay) == delay * 2

\* A call that goes on with the delay the call before it ended with.
FirstDelayCarried(initial, last) == last

\* retry_delay = self.initial_delay
FirstDelay(initial, last) == initial

\* What a call that begins records of the call that ended before it.
EndOfCall ==
    IF cpc = "done"
    THEN Some([attempt |-> attempt, retry_delay |-> retry_delay, test |-> cTest # ""])
    ELSE None

\* SparqlClient.execute_query up to the loop.
ExecuteQuery ==
    /\ cpc \in {"idle", "done"}
    /\ cTest # "running"
    /\ cpc' = "running"
    /\ attempt' = 0
    /\ retry_delay' = FirstDelay(initial_delay, retry_delay)
    /\ sleeps' = <<>>
    /\ queries' = 0
    /\ outcomes' = <<>>
    /\ result' = None
    /\ propagated' = FALSE
    /\ cTest' = ""
    /\ cPrev' = EndOfCall
    /\ UNCHANGED <<max_retries, initial_delay>>

\* SparqlClient.test_connection up to the loop of its execute_query call.
test_connection ==
    /\ cpc \in {"idle", "done"}
    /\ cTest # "running"
    /\ cpc' = "running"
    /\ attempt' = 0
    /\ retry_delay' = FirstDelay(initial_delay, retry_delay)
    /\ sleeps' = <<>>
    /\ queries' = 0
    /\ outcomes' = <<>>
    /\ result' = None
    /\ propagated' = FALSE
    /\ cTest' = "running"
    /\ cPrev' = EndOfCall
    /\ UNCHANGED <<max_retries, initial_delay>>

\* A connection test that takes a response without bindings for a failure.
ConnectionResultNonEmpty(res) ==
    res # None /\ ValidateResultsNonEmpty(res[1]) = "true"

\* return result is not None
ConnectionResult(res) == res # None

\* The end of test_connection: its execute_query call has returned, or a
\* KeyboardInterrupt has left it, which "except Exception" does not catch.
TestConnectionReturns ==
    /\ cpc = "done"
    /\ cTest = "running"
    /\ cTest' = IF propagated THEN "KeyboardInterrupt"
                ELSE IF ConnectionResult(result) THEN "True" ELSE "False"
    /\ UNCHANGED <<max_retries, initial_delay, cpc, attempt, retry_delay, sleeps,
                   queries, outcomes, result, propagated, cPrev>>

\* One iteration of the loop of execute_query, and the return after the loop
\* when it was the last.
Attempt(outcome) ==
    /\ cpc = "running"
    /\ attempt < max_retries
    /\ queries' = queries + 1
    /\ outcomes' = Append(outcomes, outcome)
    /\ LET h == HandlerOf(outcome)
           sleep == h = "retry" /\ ShouldSleep(attempt, max_retries)
       IN  /\ sleeps' = IF sleep THEN Append(sleeps, retry_delay) ELSE sleeps
           /\ retry_delay' = IF sleep THEN NextDelay(retry_delay) ELSE retry_delay
           /\ attempt' = IF h = "retry" THEN attempt + 1 ELSE attempt
           /\ cpc' = IF h = "retry" /\ attempt + 1 < max_retries THEN "running" ELSE "done"
           /\ result' = IF h = "return" THEN Some(outcome.response) ELSE None
           /\ propagated' = (h = "propagate")
    /\ UNCHANGED <<max_retries, initial_delay, cTest, cPrev>>

\* The initial delays a client is configured with: 0.01 s and 1.0 s of the
\* tests and the default of 2 s.
InitialDelays == {10, 1000, 2000}

\* The store is not used while the client is exercised.
StoreUnused ==
    /\ fileExists = FALSE
    /\ fileLines = <<>>
    /\ constructed = FALSE
    /\ processed_keys = {}
    /\ lastOp = "none"
    /\ lastArg = <<>>
    /\ lastRet = 0
    /\ preLines = <<>>
    /\ preKeys = {}
    /\ repeated = FALSE
    /\ wrote = FALSE
    /\ ioFailed = FALSE
    /\ lastExc = ""
    /\ lastRaised = ""

InitClient ==
    /\ StoreUnused
    /\ MapperUnused
    /\ BuilderUnused
    /\ RunUnused
    /\ max_retries \in 1..MaxAttempts
    /\ initial_delay \in InitialDelays
    /\ cpc = "idle"
    /\ attempt = 0
    /\ retry_delay = initial_delay
    /\ sleeps = <<>>
    /\ queries = 0
    /\ outcomes = <<>>
    /\ result = None
    /\ propagated = FALSE
    /\ cTest = ""
    /\ cPrev = None

NextClient ==
    \/ ExecuteQuery /\ UNCHANGED exceptClient
    \/ test_connection /\ UNCHANGED exceptClient
    \/ TestConnectionReturns /\ UNCHANGED exceptClient
    \/ \E outcome \in AttemptOutcomes : Attempt(outcome) /\ UNCHANGED exceptClient

SpecClient == InitClient /\ [][NextClient]_vars

(***************************************************************************)
(* Measurement construction (models/measurement.py) and DataProcessor      *)
(* (core/data_processor.py).  The object values of a response are str; a   *)
(* text is the token sequence of one.                                      *)
(***************************************************************************)
RECURSIVE Join(_)
Join(tokens) == IF tokens = <<>> THEN "" ELSE Head(tokens) \o Join(Tail(tokens))

\* A timestamp text that is parsed as it comes.
ReplaceZNothing(tokens) == tokens

\* v.replace("Z", "+00:00")
ReplaceZ(tokens) == [i \in 1..Len(tokens) |-> IF tokens[i] = "Z" THEN "+00:00" ELSE tokens[i]]

WallClockTexts == {"2024-01-15T10:30:00", "2024-01-15T10:40:00"}
OffsetTexts == {"+00:00", "+01:00"}

\* datetime.fromisoformat: a wall-clock text, alone or followed by an offset;
\* anything else raises ValueError.
fromisoformat(tokens) ==
    IF Len(tokens) = 1 /\ tokens[1] \in WallClockTexts
    THEN [ok |-> TRUE, dt |-> [wall |-> tokens[1], off |-> ""]]
    ELSE IF Len(tokens) = 2 /\ tokens[1] \in WallClockTexts /\ tokens[2] \in OffsetTexts
    THEN [ok |-> TRUE, dt |-> [wall |-> tokens[1], off |-> tokens[2]]]
    ELSE [ok |-> FALSE, dt |-> [wall |-> "", off |-> ""]]

\* Measurement.parse_timestamp on a str.
parse_timestamp(tokens) == fromisoformat(ReplaceZ(tokens))

\* The texts Decimal() accepts, with the str() of the Decimal it makes.
DecimalTexts == {"123.45", "456.78", "15.5", "99.9", "1e3", "NaN", "Infinity"}
DecimalStr(text) == IF text = "1e3" THEN "1E+3" ELSE text

\* Measurement.parse_decimal on an Optional text: None, a blank str and a
\* text Decimal() rejects all give None.
parse_decimal(v) ==
    IF v = None THEN None
    ELSE IF Join(v[1]) = "" THEN None
    ELSE IF Join(v[1]) \in DecimalTexts THEN Some([dec |-> DecimalStr(Join(v[1]))])
    ELSE None

\* A field declared Decimal | None, given an Optional text: after
\* parse_decimal the validation of the field type rejects a Decimal that is
\* not a finite number.
DecimalField(v) ==
    LET d == parse_decimal(v)
    IN  [ok |-> d = None \/ d[1].dec \notin {"NaN", "Infinity"}, value |-> d]

\* v.lower().strip() of the texts used here.
LowerStrip(text) ==
    CASE text = "True" -> "true"
      [] text = "FALSE" -> "false"
      [] OTHER -> text

\* Measurement.parse_bool on an Optional text.
parse_bool(v) ==
    IF v = None THEN None
    ELSE IF LowerStrip(Join(v[1])) \in {"true", "1", "yes"} THEN Some(TRUE)
    ELSE IF LowerStrip(Join(v[1])) \in {"false", "0", "no"} THEN Some(FALSE)
    ELSE None

\* The texts pydantic reads as an int, with the int.
IntTexts == {"0", "3", "5", "7"}
IntOf(text) ==
    CASE text = "0" -> 0
      [] text = "3" -> 3
      [] text = "5" -> 5
      [] OTHER -> 7

\* A danger level field without the bounds ge=0, le=5.
ValidateDangerLevelUnbounded(v) ==
    IF v = None THEN [ok |-> TRUE, value |-> None]
    ELSE IF Join(v[1]) \notin IntTexts THEN [ok |-> FALSE, value |-> None]
    ELSE [ok |-> TRUE, value |-> Some(IntOf(Join(v[1])))]

\* danger_level: int | None = Field(None, ge=0, le=5), given an Optional text.
ValidateDangerLevel(v) ==
    IF v = None THEN [ok |-> TRUE, value |-> None]
    ELSE IF Join(v[1]) \notin IntTexts THEN [ok |-> FALSE, value |-> None]
    ELSE IF IntOf(Join(v[1])) < 0 \/ IntOf(Join(v[1])) > 5 THEN [ok |-> FALSE, value |-> None]
    ELSE [ok |-> TRUE, value |-> Some(IntOf(Join(v[1])))]

\* Measurement(**data): ok is FALSE when validation raises.  data holds an
\* Optional text per field and the station_id.
MeasurementInit(data) ==
    LET ts == parse_timestamp(data.timestamp[1])
        danger == ValidateDangerLevel(data.danger_level)
    IN  [ok |-> /\ data.timestamp # None /\ ts.ok /\ danger.ok
                /\ DecimalField(data.discharge).ok
                /\ DecimalField(data.water_level).ok
                /\ DecimalField(data.water_temperature).ok,
         m |-> [station_id |-> data.station_id,
                timestamp |-> ts.dt,
                discharge |-> DecimalField(data.discharge).value,
                water_level |-> DecimalField(data.water_level).value,
                water_temperature |-> DecimalField(data.water_temperature).value,
                danger_level |-> danger.value,
                is_liter |-> parse_bool(data.is_liter)]]

\* The index of the last token of a URI that equals marker, 0 when none does.
LastIndexOf(tokens, marker) ==
    IF \E i \in 1..Len(tokens) : tokens[i] = marker
    THEN CHOOSE i \in 1..Len(tokens) :
            tokens[i] = marker /\ \A j \in (i + 1)..Len(tokens) : tokens[j] # marker
    ELSE 0

\* A table that has lost its last entry.
FieldMappingWithoutLiter ==
    << <<"measurementTime", "timestamp">>, <<"discharge", "discharge">>,
       <<"waterLevel", "water_level">>, <<"waterTemperature", "water_temperature">>,
       <<"dangerLevel", "danger_level">> >>

field_mapping ==
    << <<"measurementTime", "timestamp">>, <<"discharge", "discharge">>,
       <<"waterLevel", "water_level">>, <<"waterTemperature", "water_temperature">>,
       <<"dangerLevel", "danger_level">>, <<"isLiter", "is_liter">> >>

\* DataProcessor._map_predicate_to_field: the field name, or None.
map_predicate_to_field(uri) ==
    LET marker == IF LastIndexOf(uri, "/dimension/") > 0 THEN "/dimension/"
                  ELSE IF LastIndexOf(uri, "example.com/") > 0 THEN "example.com/"
                  ELSE ""
        param_name == Join(SubSeq(uri, LastIndexOf(uri, marker) + 1, Len(uri)))
    IN  IF marker = "" THEN None
        ELSE IF \E i \in 1..Len(field_mapping) : field_mapping[i][1] = param_name
        THEN Some(field_mapping[CHOOSE i \in 1..Len(field_mapping) :
                                   field_mapping[i][1] = param_name][2])
        ELSE None

\* bool(x) of a JSON value.
Truthy(x) == x.t # "NoneType" /\ x.v # <<>>

\* DataProcessor._validate_results: "true", "false", or "raise" when an
\* operand of the and-chain raises TypeError.
MapperValidate(results) ==
    IF ~Truthy(results) \/ results.t # "dict" THEN "false"
    ELSE IF ~DictHas(results, "results") THEN "false"
    ELSE LET section == DictGet(results, "results")
         IN  IF PyIn("bindings", section) # "true" THEN PyIn("bindings", section)
             ELSE IF section.t # "dict" THEN "raise"   \* section["bindings"]
             ELSE IF Truthy(DictGet(section, "bindings")) THEN "true" ELSE "false"

EmptyData(station_id) ==
    [station_id |-> station_id, timestamp |-> None, discharge |-> None,
     water_level |-> None, water_temperature |-> None, danger_level |-> None,
     is_liter |-> None]

\* binding.get(key, {}).get("value"): raised when binding or its entry has no
\* get (AttributeError); value None when the entry or its "value" is missing.
BindingValue(binding, key) ==
    IF binding.t # "dict" THEN [raised |-> TRUE, value |-> None]
    ELSE IF ~DictHas(binding, key) THEN [raised |-> FALSE, value |-> None]
    ELSE IF DictGet(binding, key).t # "dict" THEN [raised |-> TRUE, value |-> None]
    ELSE IF ~DictHas(DictGet(binding, key), "value") THEN [raised |-> FALSE, value |-> None]
    ELSE [raised |-> FALSE, value |-> Some(DictGet(DictGet(binding, key), "value").v)]

\* One iteration of the loop of _extract_data.
ExtractBinding(st, binding) ==
    LET predicate == BindingValue(binding, "predicate")
        value == BindingValue(binding, "object")
        field_name == map_predicate_to_field(predicate.value[1])
    IN  IF st.raised \/ predicate.raised \/ value.raised
        THEN [st EXCEPT !.raised = TRUE]
        ELSE IF predicate.value = None \/ predicate.value = Some(<<>>) \/ value.value = None
        THEN st
        ELSE IF field_name = None THEN st
        ELSE [st EXCEPT !.data[field_name[1]] = value.value]

RECURSIVE ExtractLoop(_, _)
ExtractLoop(items, st) ==
    IF items = <<>> THEN st ELSE ExtractLoop(Tail(items), ExtractBinding(st, Head(items)))

\* What iterating a truthy bindings value yields: the items of a list, the
\* characters of a str, the keys of a dict.
IterItems(bindings) ==
    CASE bindings.t = "list" -> bindings.v
      [] bindings.t = "str" -> [i \in 1..Len(bindings.v) |-> PyStr(<<bindings.v[i]>>)]
      [] OTHER -> [i \in 1..Len(bindings.v) |-> PyStr(<<bindings.v[i][1]>>)]

\* DataProcessor._extract_data
ExtractData(results, station_id) ==
    ExtractLoop(IterItems(DictGet(DictGet(results, "results"), "bindings")),
                [raised |-> FALSE, data |-> EmptyData(station_id)])

Returned(m) == [kind |-> "record", m |-> Some(m)]
ReturnedNone == [kind |-> "none", m |-> None]
Raised == [kind |-> "raise", m |-> None]

\* DataProcessor.process_results
process_results(results, station_id) ==
    IF MapperValidate(results) = "raise" THEN Raised
    ELSE IF MapperValidate(results) = "false" THEN ReturnedNone
    ELSE LET extracted == ExtractData(results, station_id)
             data == extracted.data
         IN  IF extracted.raised THEN Raised
             ELSE IF data.timestamp = None \/ data.timestamp = Some(<<>>) THEN ReturnedNone
             ELSE IF ~MeasurementInit(data).ok THEN ReturnedNone
             ELSE IF has_measurements(MeasurementInit(data).m)
             THEN Returned(MeasurementInit(data).m)
             ELSE ReturnedNone

\* The predicate URIs and bindings the mapper is exercised with.
DimensionUri(name) == <<"https://environment.ld.admin.ch/foen/hydro", "/dimension/", name>>
IsLiterUri == <<"http://", "example.com/", "isLiter">>

MapperBindings ==
    {Binding(DimensionUri("measurementTime"), t) :
        t \in {<<"2024-01-15T10:30:00", "Z">>, <<"invalid_timestamp">>, <<>>}} \cup
    {Binding(DimensionUri("discharge"), t) : t \in {<<"123.45">>, <<"abc">>}} \cup
    {Binding(DimensionUri("waterLevel"), t) : t \in {<<"456.78">>, <<"NaN">>}} \cup
    {Binding(DimensionUri("waterTemperature"), <<"15.5">>)} \cup
    {Binding(DimensionUri("dangerLevel"), t) : t \in {<<"3">>, <<"7">>}} \cup
    {Binding(IsLiterUri, t) : t \in {<<"True">>, <<"maybe">>}} \cup
    {Binding(<<"http://unknown.com/property">>, <<"1">>),
     PyDict(<< <<"predicate", PyDict(<< <<"value", PyStr(DimensionUri("discharge"))>> >>)>> >>),
     PyStr(<<"binding">>)}

\* The responses a call starts from: shapes without a bindings list, and the
\* empty bindings list that AddBinding fills.
MapperStartResponses ==
    {PyNone, PyDict(<<>>), PyDict(<< <<"results", PyDict(<<>>)>> >>),
     PyDict(<< <<"results", PyNone>> >>), ResultsOf(PyStr(<<"not_a_list">>)),
     EmptyResults}

MapperStations == {"2044"}

HasBindingsList(r) ==
    /\ r.t = "dict"
    /\ DictHas(r, "results")
    /\ DictGet(r, "results").t = "dict"
    /\ DictHas(DictGet(r, "results"), "bindings")
    /\ DictGet(DictGet(r, "results"), "bindings").t = "list"

BindingsOf(r) == DictGet(DictGet(r, "results"), "bindings").v

\* The caller's response gets one more binding.
AddBinding(b) ==
    /\ mpc = "build"
    /\ HasBindingsList(mResponse)
    /\ Len(BindingsOf(mResponse)) < MaxBindings
    /\ mResponse' = ResultsOf(PyList(Append(BindingsOf(mResponse), b)))
    /\ UNCHANGED <<mpc, mStation, mOutcome, mSaved>>

\* The call DataProcessor.process_results(mResponse, station_id).
ProcessResults(station_id) ==
    /\ mpc = "build"
    /\ mpc' = "mapped"
    /\ mStation' = station_id
    /\ mOutcome' = process_results(mResponse, station_id)
    /\ UNCHANGED <<mResponse, mSaved>>

InitMapper ==
    /\ StoreUnused
    /\ ClientUnused
    /\ BuilderUnused
    /\ RunUnused
    /\ mpc = "build"
    /\ mResponse \in MapperStartResponses
    /\ mStation = ""
    /\ mOutcome = <<>>
    /\ mSaved = <<>>

NextMapper ==
    \/ \E b \in MapperBindings : AddBinding(b) /\ UNCHANGED exceptMapper
    \/ \E st \in MapperStations : ProcessResults(st) /\ UNCHANGED exceptMapper

SpecMapper == InitMapper /\ [][NextMapper]_vars

(***************************************************************************)
(* The mapper and the store together, as LindasHydroScraper uses them: the *)
(* Measurement that process_results returns for a response is passed to    *)
(* save_measurements of a CsvHandler on a new file.                        *)
(***************************************************************************)
\* The responses of the endpoint: a measurementTime written with "Z", with
\* "+00:00", with "+01:00" or unparseable, a discharge, and further values.
PipelineResponses ==
    {ResultsOf(PyList(<<Binding(DimensionUri("measurementTime"), t),
                        Binding(DimensionUri("discharge"), <<"123.45">>)>> \o more)) :
        t \in {<<"2024-01-15T10:30:00", "Z">>, <<"2024-01-15T10:30:00", "+00:00">>,
               <<"2024-01-15T10:30:00", "+01:00">>, <<"invalid_timestamp">>},
        more \in {<<>>,
                  <<Binding(DimensionUri("dangerLevel"), <<"3">>)>>,
                  <<Binding(DimensionUri("dangerLevel"), <<"7">>)>>,
                  <<Binding(DimensionUri("waterLevel"), <<"456.78">>),
                    Binding(DimensionUri("waterTemperature"), <<"15.5">>),
                    Binding(DimensionUri("dangerLevel"), <<"5">>),
                    Binding(IsLiterUri, <<"True">>)>>}}

\* results = self.sparql_client.execute_query(query) in _scrape_site: the
\* caller holds the next response.
Receive(r) ==
    /\ mpc = "mapped"
    /\ mpc' = "build"
    /\ mResponse' = r
    /\ mStation' = ""
    /\ mOutcome' = <<>>
    /\ UNCHANGED mSaved

\* run() passes the Measurement that process_results returned to
\* save_measurements.
SaveMapped(io) ==
    /\ mpc = "mapped"
    /\ mOutcome.kind = "record"
    /\ Len(mSaved) < MaxSaves
    /\ SaveMeasurements(<<mOutcome.m[1]>>, io)
    /\ mSaved' = Append(mSaved, ExtractData(mResponse, mStation).data.timestamp[1])
    /\ UNCHANGED <<mpc, mResponse, mStation, mOutcome>>

InitPipeline ==
    /\ ClientUnused
    /\ BuilderUnused
    /\ RunUnused
    /\ StoreUnused
    /\ mpc = "build"
    /\ mResponse \in PipelineResponses
    /\ mStation = ""
    /\ mOutcome = <<>>
    /\ mSaved = <<>>

NextPipeline ==
    \/ ~constructed /\ Construct /\ UNCHANGED exceptStore
    \/ \E r \in PipelineResponses : Receive(r) /\ UNCHANGED exceptMapper
    \/ \E st \in MapperStations : ProcessResults(st) /\ UNCHANGED exceptMapper
    \/ \E io \in IoOutcomes :
          SaveMapped(io) /\ UNCHANGED <<clientVars, builderVars, runVars>>

SpecPipeline == InitPipeline /\ [][NextPipeline]_vars

(***************************************************************************)
(* QueryParameters (models/query.py) and SparqlQueryBuilder                *)
(* (core/query_builder.py).  An element of a parameters list is a member   *)
(* of the Parameter enum or the plain str that is its value.               *)
(***************************************************************************)
ParameterNames ==
    <<"station", "discharge", "measurementTime", "waterLevel", "dangerLevel",
      "waterTemperature", "isLiter">>

Member(name) == [enum |-> TRUE, value |-> name]
Value(name) == [enum |-> FALSE, value |-> name]

\* Parameter.uri
ParameterUri(name) == IF name = "isLiter" THEN IsLiterUri ELSE DimensionUri(name)

\* QueryParameters(site_code=..., parameters=...) under Config.use_enum_values:
\* a list that is passed is validated and each member replaced by its value;
\* when none is passed (None here) the default_factory's list(Parameter) is
\* taken as it is, members and all.
QueryParametersInit(site_code, given) ==
    [site_code |-> site_code,
     parameters |->
        IF given = None
        THEN [i \in 1..Len(ParameterNames) |-> Member(ParameterNames[i])]
        ELSE [i \in 1..Len(given[1]) |-> Value(given[1][i].value)]]

\* int(text) for the site codes used here: the texts int() accepts (digits,
\* with a sign, with blanks around them) and the int it gives; every other
\* text raises ValueError("invalid literal ...").
IntLiterals ==
    << <<"1", 1>>, <<"2044", 2044>>, <<"9999", 9999>>, <<"0", 0>>, <<"10000", 10000>>,
       <<"99999", 99999>>, <<"-5", -5>>, <<" 42 ", 42>> >>

IntParses(text) == \E i \in 1..Len(IntLiterals) : IntLiterals[i][1] = text
IntValue(text) == IntLiterals[CHOOSE i \in 1..Len(IntLiterals) : IntLiterals[i][1] = text][2]

NoError == [exc |-> "", msg |-> ""]
ValueError(msg) == [exc |-> "ValueError", msg |-> msg]

\* SparqlQueryBuilder._validate_parameters: the error it raises, NoError when
\* it returns.  Both errors of the try block leave it as ValueError.
validate_parameters(params) ==
    IF params.site_code = "" THEN ValueError("Site code is required")
    ELSE IF ~IntParses(params.site_code) THEN ValueError("Site code must be numeric")
    ELSE IF ~(1 <= IntValue(params.site_code) /\ IntValue(params.site_code) <= 9999)
    THEN ValueError("Site code must be 1-4 digit integer")
    ELSE IF params.parameters = <<>> THEN ValueError("At least one parameter is required")
    ELSE NoError

\* SparqlQueryBuilder._build_parameters_filter: param.uri of each element; a
\* plain str has no attribute uri.
build_parameters_filter(parameters) ==
    IF \E i \in 1..Len(parameters) : ~parameters[i].enum
    THEN [error |-> [exc |-> "AttributeError", msg |-> "'str' object has no attribute 'uri'"],
          uris |-> <<>>]
    ELSE [error |-> NoError,
          uris |-> [i \in 1..Len(parameters) |-> ParameterUri(parameters[i].value)]]

LINDAS_BASE_URL == "https://environment.ld.admin.ch/foen/hydro"
LINDAS_GRAPH == "https://lindas.admin.ch/foen/hydro"

\* SparqlQueryBuilder.build_query: the query it returns, as the graph, the
\* subject and the predicates of the FILTER its text names, or the error it
\* raises.
build_query(params) ==
    LET invalid == validate_parameters(params)
        filter == build_parameters_filter(params.parameters)
    IN  IF invalid # NoError THEN [kind |-> "raise", error |-> invalid, query |-> <<>>]
        ELSE IF filter.error # NoError
        THEN [kind |-> "raise", error |-> filter.error, query |-> <<>>]
        ELSE [kind |-> "query", error |-> NoError,
              query |-> [graph |-> LINDAS_GRAPH,
                         subject |-> <<LINDAS_BASE_URL, "/river/observation/", params.site_code>>,
                         predicates |-> filter.uris]]

\* The site codes and parameter lists the builder is exercised with.
SiteCodes == {"", "2044", "99999", "1", "9999", "0", "10000", "-5", " 42 ", "abc", "20.44"}

GivenParameters ==
    {None} \cup
    {Some(l) : l \in SeqsUpTo({Member("discharge"), Member("measurementTime"),
                               Member("isLiter")}, MaxParams)}

\* QueryParameters(site_code=site_code[, parameters=given])
NewQueryParameters(site_code, given) ==
    /\ bpc = "idle"
    /\ bpc' = "params"
    /\ bParams' = QueryParametersInit(site_code, given)
    /\ UNCHANGED bOutcome

\* SparqlQueryBuilder().build_query(bParams)
BuildQuery ==
    /\ bpc = "params"
    /\ bpc' = "built"
    /\ bOutcome' = build_query(bParams)
    /\ UNCHANGED bParams

InitBuilder ==
    /\ StoreUnused
    /\ ClientUnused
    /\ MapperUnused
    /\ bpc = "idle"
    /\ bParams = <<>>
    /\ bOutcome = <<>>
    /\ RunUnused

NextBuilder ==
    \/ \E site_code \in SiteCodes, given \in GivenParameters :
          NewQueryParameters(site_code, given) /\ UNCHANGED exceptBuilder
    \/ BuildQuery /\ UNCHANGED exceptBuilder

SpecBuilder == InitBuilder /\ [][NextBuilder]_vars

(***************************************************************************)
(* LindasHydroScraper (scrapers/lindas_scraper.py) and main() (main.py).   *)
(* The collaborators are seen through what their calls give back: a query  *)
(* or an error from build_query, results or None from execute_query, a     *)
(* Measurement, None or an error from process_results.                     *)
(***************************************************************************)
\* A call on a collaborator: its name, the position and code of the station
\* it is made for (0 and "" for none), what it gave back, and for
\* save_measurements the positions of the stations whose Measurements it
\* was given.
Event(op, pos, site, out, arg) ==
    [op |-> op, pos |-> pos, site |-> site, out |-> out, arg |-> arg]

\* What build_query does for a station: it returns a query, raises the
\* ValueError of its validation, or raises another error.
BuildOutcomes == {"query", "ValueError", "AttributeError"}

\* What execute_query does: results that passed its validation, None, or an
\* error of setQuery, which is outside its try block.
ExecOutcomes == {"results", "None", "raise"}

\* What process_results does: a Measurement, None, or an error.
MapOutcomes == {"Measurement", "None", "raise"}

\* The calls _scrape_site makes for the station at pos: build_query, then
\* execute_query when a query came back, then process_results when results
\* came back.
SiteEvents(pos, site, build, exec, map) ==
    <<Event("build", pos, site, build, <<>>)>>
    \o (IF build = "query" THEN <<Event("query", pos, site, exec, <<>>)>> ELSE <<>>)
    \o (IF build = "query" /\ exec = "results"
        THEN <<Event("map", pos, site, map, <<>>)>> ELSE <<>>)

\* How _scrape_site ends: with a Measurement, with None (the ValueError of
\* build_query is caught there, execute_query gave None, or process_results
\* gave None), or with the error of build_query, execute_query or
\* process_results.
scrape_site(build, exec, map) ==
    IF build = "ValueError" THEN "None"
    ELSE IF build # "query" THEN "raise"
    ELSE IF exec # "results" THEN exec
    ELSE map

\* A loop that leaves out the last configured station.
LoopDoneEarly(next, sites) == next >= Len(sites)

\* "for site_code in self.settings.site_codes" has run through.
LoopDone(next, sites) == next > Len(sites)

\* A loop that an error in one station ends.
AfterSiteBreaks(next, sites, ended) ==
    IF ended = "raise" THEN Len(sites) + 1 ELSE next + 1

\* The position the loop goes on with after a station: the except branch of
\* run ends in "continue".
AfterSite(next, sites, ended) == next + 1

\* A loop over the station list from its end.
SiteAtReversed(sites, next) == sites[Len(sites) + 1 - next]

\* The station of the loop iteration at position next.
SiteAt(sites, next) == sites[next]

\* An exit status that is 0 unless the user interrupted.
ExitStatusOfInterruptOnly(ending) == IF ending = "KeyboardInterrupt" THEN 1 ELSE 0

\* The exit status of the process: sys.exit(1) in both except branches of
\* main, 0 when main returns.
ExitStatus(ending) == IF ending = "completed" THEN 0 ELSE 1

\* main() leaves its try block through an except branch.
MainFails(ending) ==
    /\ rpc' = "exited"
    /\ rEnding' = ending
    /\ rExit' = ExitStatus(ending)

\* settings = Settings(): the configuration is loaded, or its validation
\* raises.
LoadSettings(sites, ok) ==
    /\ rpc = "start"
    /\ IF ok
       THEN /\ rpc' = "settings"
            /\ rSites' = sites
            /\ UNCHANGED <<rEnding, rExit>>
       ELSE /\ MainFails("Exception")
            /\ UNCHANGED rSites
    /\ UNCHANGED <<rNext, rMeasurements, rErrors, rEvents>>

\* scraper = LindasHydroScraper(settings): the collaborators are constructed,
\* or ensure_directories or CsvHandler raises.
NewScraper(ok) ==
    /\ rpc = "settings"
    /\ IF ok
       THEN rpc' = "scraper" /\ UNCHANGED <<rEnding, rExit>>
       ELSE MainFails("Exception")
    /\ UNCHANGED <<rSites, rNext, rMeasurements, rErrors, rEvents>>

\* The start of run(): test_connection(); when it fails run returns.
TestConnection(connected) ==
    /\ rpc = "scraper"
    /\ rEvents' = Append(rEvents, Event("test_connection", 0, "",
                                        IF connected THEN "True" ELSE "False", <<>>))
    /\ rpc' = IF connected THEN "loop" ELSE "ran"
    /\ rMeasurements' = <<>>
    /\ rErrors' = 0
    /\ rNext' = 1
    /\ UNCHANGED <<rSites, rEnding, rExit>>

\* A list that takes a station's Measurement in front of those it holds.
CollectedInFront(measurements, pos) == <<pos>> \o measurements

\* measurements.append(measurement)
Collected(measurements, pos) == Append(measurements, pos)

\* One iteration of the loop of run(): _scrape_site(site_code) and what run
\* does with its result.
ScrapeSite(build, exec, map) ==
    /\ rpc = "loop"
    /\ ~LoopDone(rNext, rSites)
    /\ build # "query" => exec = "None"
    /\ exec # "results" => map = "None"
    /\ LET ended == scrape_site(build, exec, map)
       IN  /\ rEvents' = rEvents \o SiteEvents(rNext, SiteAt(rSites, rNext), build, exec, map)
           /\ rMeasurements' =
                 IF ended = "Measurement" THEN Collected(rMeasurements, rNext)
                 ELSE rMeasurements
           /\ rErrors' = IF ended = "raise" THEN rErrors + 1 ELSE rErrors
           /\ rNext' = AfterSite(rNext, rSites, ended)
    /\ UNCHANGED <<rpc, rSites, rEnding, rExit>>

\* The end of run(): save_measurements(measurements) when any was collected.
SaveResults ==
    /\ rpc = "loop"
    /\ LoopDone(rNext, rSites)
    /\ rEvents' = IF rMeasurements # <<>>
                  THEN Append(rEvents, Event("save", 0, "", "", rMeasurements))
                  ELSE rEvents
    /\ rpc' = "ran"
    /\ UNCHANGED <<rSites, rNext, rMeasurements, rErrors, rEnding, rExit>>

\* time.sleep(1) in main().
Sleep ==
    /\ rpc = "ran"
    /\ rpc' = "slept"
    /\ UNCHANGED <<rSites, rNext, rMeasurements, rErrors, rEvents, rEnding, rExit>>

\* scraper.clean_duplicates(): remove_duplicates() returns a count, or raises
\* an error that clean_duplicates catches.
CleanDuplicates(outcome) ==
    /\ rpc = "slept"
    /\ rEvents' = Append(rEvents, Event("remove_duplicates", 0, "", outcome, <<>>))
    /\ rpc' = "cleaned"
    /\ UNCHANGED <<rSites, rNext, rMeasurements, rErrors, rEnding, rExit>>

\* main() returns after "Scraping completed successfully".
MainReturns ==
    /\ rpc = "cleaned"
    /\ rpc' = "exited"
    /\ rEnding' = "completed"
    /\ rExit' = ExitStatus("completed")
    /\ UNCHANGED <<rSites, rNext, rMeasurements, rErrors, rEvents>>

\* The user interrupts the process inside the try block of main(): no
\* "except Exception" on the way catches KeyboardInterrupt.
Interrupt ==
    /\ rpc # "exited"
    /\ MainFails("KeyboardInterrupt")
    /\ UNCHANGED <<rSites, rNext, rMeasurements, rErrors, rEvents>>

\* The station lists a run is configured with.
SiteLists == SeqsUpTo({"2044", "2112", "abc"}, MaxSites)

InitRun ==
    /\ StoreUnused
    /\ ClientUnused
    /\ MapperUnused
    /\ BuilderUnused
    /\ RunUnused

NextRun ==
    \/ \E sites \in SiteLists, ok \in BOOLEAN :
          /\ ~ok => sites = <<>>
          /\ LoadSettings(sites, ok)
          /\ UNCHANGED exceptRun
    \/ \E ok \in BOOLEAN : NewScraper(ok) /\ UNCHANGED exceptRun
    \/ \E connected \in BOOLEAN : TestConnection(connected) /\ UNCHANGED exceptRun
    \/ \E build \in BuildOutcomes, exec \in ExecOutcomes, map \in MapOutcomes :
          ScrapeSite(build, exec, map) /\ UNCHANGED exceptRun
    \/ SaveResults /\ UNCHANGED exceptRun
    \/ Sleep /\ UNCHANGED exceptRun
    \/ \E outcome \in {"removed", "none", "Exception"} :
          CleanDuplicates(outcome) /\ UNCHANGED exceptRun
    \/ MainReturns /\ UNCHANGED exceptRun
    \/ Interrupt /\ UNCHANGED exceptRun

SpecRun == InitRun /\ [][NextRun]_vars

(***************************************************************************)
(* Properties of the store.                                                *)
(***************************************************************************)
IsPrefix(s, t) == Len(s) <= Len(t) /\ SubSeq(t, 1, Len(s)) = s

\* The data rows of a file: its lines without a leading header line.
DataRows(lines) ==
    IF lines # <<>> /\ lines[1] = CSV_COLUMNS THEN Tail(lines) ELSE lines

\* The dedup key of a stored row: its timestamp cell, "_", its station cell.
RowKey(row) == row[1] \o "_" \o row[2]

KeysOfRows(rows) == {RowKey(rows[i]) : i \in 1..Len(rows)}

\* The rows the last call appended, when it left the old lines in place.
Appended == SubSeq(fileLines, Len(preLines) + 1, Len(fileLines))

\* The last save_measurements ran into the except branch: it opened the file
\* and returned 0.
SaveRaised == lastOp = "save" /\ wrote /\ lastRet = 0

\* C1: save_measurements called twice in a row with the same list appends
\* nothing in the second call, which returns 0.
C1_SecondSaveAppendsNothing ==
    repeated => (lastRet = 0 /\ fileLines = preLines /\ ~wrote)

\* The second of two equal calls has returned, and the file holds the row of
\* the list's first Measurement.
C1_Witness ==
    /\ repeated
    /\ lastArg # <<>>
    /\ \E i \in 1..Len(fileLines) : fileLines[i] = RowOf(lastArg[1])

\* C2: a save_measurements call writes, for each dedup key, at most the first
\* Measurement of its argument with that key and none whose key the index
\* already held; every key of the argument is in the index afterwards, and
\* the call removes none, so later calls skip those keys as well.
C2_FirstSeenWins ==
    lastOp = "save" =>
        /\ IsPrefix(preLines, fileLines)
        /\ \A i \in 1..Len(Appended) :
              /\ RowKey(Appended[i]) \notin preKeys
              /\ \A j \in 1..Len(Appended) : RowKey(Appended[j]) = RowKey(Appended[i]) => j = i
              /\ \E k \in 1..Len(lastArg) :
                    /\ Appended[i] = RowOf(lastArg[k])
                    /\ \A h \in 1..(k - 1) : unique_key(lastArg[h]) # unique_key(lastArg[k])
        /\ preKeys \subseteq processed_keys
        /\ \A k \in 1..Len(lastArg) : unique_key(lastArg[k]) \in processed_keys

\* A call whose argument held two different Measurements with one key wrote
\* the first of them, and only it.
C2_Witness ==
    /\ lastOp = "save"
    /\ Len(lastArg) = 2
    /\ lastArg[1] # lastArg[2]
    /\ unique_key(lastArg[1]) = unique_key(lastArg[2])
    /\ Appended = <<RowOf(lastArg[1])>>

HeaderFirst == fileLines # <<>> /\ fileLines[1] = CSV_COLUMNS

\* No stored row has a timestamp or station cell that read_csv takes for NaN.
NoMissingKeyCells ==
    \A i \in 1..Len(DataRows(fileLines)) :
        /\ DataRows(fileLines)[i][1] \notin PandasNaValues
        /\ DataRows(fileLines)[i][2] \notin PandasNaValues

\* C4 as claimed: after construction and after every save_measurements that
\* did not raise, the index is the set of keys of the rows in the file.
C4_AsClaimed ==
    (constructed /\ (lastOp = "init" \/ (lastOp = "save" /\ ~SaveRaised)))
        => processed_keys = KeysOfRows(DataRows(fileLines))

\* C4 where it holds: when the file starts with the header line, no row has
\* a timestamp or station cell that reads as missing, and no
\* save_measurements of this instance has raised so far, then after
\* construction and after every save_measurements the index is the set of
\* keys of the rows in the file.
C4_IndexMatchesFile ==
    (/\ constructed
     /\ lastOp \in {"init", "save"}
     /\ HeaderFirst
     /\ NoMissingKeyCells
     /\ ~ioFailed)
        => processed_keys = KeysOfRows(DataRows(fileLines))

\* A save on a file that already held a row has appended another.
C4_Witness ==
    /\ constructed
    /\ lastOp = "save"
    /\ HeaderFirst
    /\ NoMissingKeyCells
    /\ ~ioFailed
    /\ Len(preLines) >= 2
    /\ lastRet > 0

(***************************************************************************)
(* Properties of the client.                                               *)
(***************************************************************************)
RECURSIVE Pow2(_)
Pow2(n) == IF n = 0 THEN 1 ELSE 2 * Pow2(n - 1)

\* The waits of k retries that start at delay d: d, 2d, 4d, ...
Backoff(d, k) == [i \in 1..k |-> d * Pow2(i - 1)]

\* A mapping with a "results" section that is a mapping holding a "bindings"
\* sequence.
WellFormed(r) ==
    /\ r.t = "dict"
    /\ DictHas(r, "results")
    /\ DictGet(r, "results").t = "dict"
    /\ DictHas(DictGet(r, "results"), "bindings")
    /\ DictGet(DictGet(r, "results"), "bindings").t = "list"

AllTransientBefore(n) == \A i \in 1..(n - 1) : outcomes[i].kind = "transient"

\* C5: when every attempt of a call raised SPARQLWrapperException, the call
\* made max_retries attempts, slept max_retries - 1 times, the k-th time for
\* initial_delay * 2^(k-1), and returned None.
C5_ExhaustedBackoff ==
    (cpc = "done" /\ outcomes # <<>> /\ AllTransientBefore(Len(outcomes) + 1)) =>
        /\ queries = max_retries
        /\ Len(outcomes) = max_retries
        /\ sleeps = Backoff(initial_delay, max_retries - 1)
        /\ result = None
        /\ ~propagated

\* Four failed attempts of a client with initial delay 1.0 s: waits of 1.0,
\* 2.0 and 4.0 s.
C5_Witness ==
    /\ cpc = "done"
    /\ max_retries = 4
    /\ initial_delay = 1000
    /\ Len(outcomes) = 4
    /\ AllTransientBefore(5)
    /\ sleeps = <<1000, 2000, 4000>>
    /\ result = None

\* C6: when k attempts raised SPARQLWrapperException and the next returned a
\* well-formed response, the call returned that response after k + 1
\* attempts and k waits of initial_delay, doubled each time.
C6_RetryThenSuccess ==
    (/\ cpc = "done"
     /\ outcomes # <<>>
     /\ AllTransientBefore(Len(outcomes))
     /\ outcomes[Len(outcomes)].kind = "response"
     /\ WellFormed(outcomes[Len(outcomes)].response)) =>
        /\ result = Some(outcomes[Len(outcomes)].response)
        /\ queries = Len(outcomes)
        /\ Len(outcomes) <= max_retries
        /\ sleeps = Backoff(initial_delay, Len(outcomes) - 1)

\* Two failures, then a response with a binding, at initial delay 0.01 s.
C6_Witness ==
    /\ cpc = "done"
    /\ initial_delay = 10
    /\ Len(outcomes) = 3
    /\ outcomes[1].kind = "transient"
    /\ outcomes[2].kind = "transient"
    /\ result = Some(ResultsOf(PyList(<<SampleBinding>>)))
    /\ sleeps = <<10, 20>>
    /\ queries = 3

\* C7: an attempt that returns a well-formed response, its bindings empty or
\* not, is the last of its call: the call has returned that response, and it
\* slept only after the failed attempts before it.
C7_WellFormedReturnsAtOnce ==
    \A i \in 1..Len(outcomes) :
        (outcomes[i].kind = "response" /\ WellFormed(outcomes[i].response)) =>
            /\ i = Len(outcomes)
            /\ cpc = "done"
            /\ result = Some(outcomes[i].response)
            /\ ~propagated
            /\ queries = i
            /\ Len(sleeps) = i - 1

\* A first attempt returned zero bindings, with attempts left.
C7_Witness ==
    /\ cpc = "done"
    /\ max_retries > 1
    /\ outcomes = <<[kind |-> "response", response |-> EmptyResults]>>
    /\ result = Some(EmptyResults)
    /\ sleeps = <<>>

\* C8: an attempt that returns a response of another shape is the last of
\* its call: the call has returned None and it slept only after the failed
\* attempts before it.
C8_MalformedNotRetried ==
    \A i \in 1..Len(outcomes) :
        (outcomes[i].kind = "response" /\ ~WellFormed(outcomes[i].response)) =>
            /\ i = Len(outcomes)
            /\ cpc = "done"
            /\ result = None
            /\ ~propagated
            /\ queries = i
            /\ Len(sleeps) = i - 1

\* A first attempt returned bindings that are no list, with attempts left.
C8_Witness ==
    /\ cpc = "done"
    /\ max_retries > 1
    /\ outcomes = <<[kind |-> "response", response |-> ResultsOf(PyStr(<<"not_a_list">>))]>>
    /\ result = None
    /\ sleeps = <<>>

\* C9: an attempt that raises an Exception other than SPARQLWrapperException
\* is the last of its call: the call has returned None, without raising, and
\* it slept only after the failed attempts before it.
C9_UnexpectedNotRetried ==
    \A i \in 1..Len(outcomes) :
        outcomes[i].kind = "unexpected" =>
            /\ i = Len(outcomes)
            /\ cpc = "done"
            /\ result = None
            /\ ~propagated
            /\ queries = i
            /\ Len(sleeps) = i - 1

\* A first attempt raised an unexpected Exception, with attempts left.
C9_Witness ==
    /\ cpc = "done"
    /\ max_retries > 1
    /\ Len(outcomes) = 1
    /\ outcomes[1].kind = "unexpected"
    /\ queries = 1
    /\ result = None
    /\ ~propagated

\* C22: test_connection returns True exactly when its execute_query call
\* returned a result that is not None, a response with an empty bindings list
\* included, and False otherwise; no error of the endpoint leaves it.
C22_ConnectedIffResult ==
    /\ cTest \in {"", "running", "True", "False", "KeyboardInterrupt"}
    /\ cTest \in {"True", "False"} =>
          /\ cpc = "done" /\ ~propagated
          /\ cTest = "True" <=> result # None
          /\ (outcomes[Len(outcomes)].kind = "response"
               /\ outcomes[Len(outcomes)].response = EmptyResults) => cTest = "True"
    /\ cTest = "KeyboardInterrupt" => outcomes[Len(outcomes)].kind = "interrupt"
    /\ (cpc = "done" /\ cTest = "running") =>
          (propagated <=> outcomes[Len(outcomes)].kind = "interrupt")

\* test_connection returned True for a response without bindings that came
\* after one failed attempt.
C22_Witness ==
    /\ cTest = "True"
    /\ Len(outcomes) = 2
    /\ outcomes[1].kind = "transient"
    /\ outcomes[2].kind = "response"
    /\ outcomes[2].response = EmptyResults

\* C34: a call starts with attempt 0, the configured initial delay and no
\* wait behind it, whatever the call before it on the same client ended
\* with, be it test_connection or an execute_query: its k-th wait is
\* initial_delay * 2^(k-1), and while it runs it has made one attempt per
\* loop iteration of its own and has some of its max_retries attempts left.
C34_EachCallStartsAfresh ==
    /\ (cpc = "running" /\ outcomes = <<>>) =>
          (attempt = 0 /\ retry_delay = initial_delay /\ sleeps = <<>> /\ queries = 0)
    /\ sleeps = Backoff(initial_delay, Len(sleeps))
    /\ cpc = "running" => (attempt = Len(outcomes) /\ attempt < max_retries)
    /\ retry_delay = initial_delay * Pow2(Len(sleeps))

\* An execute_query call after a test_connection that used up its attempts
\* and ended with a grown delay: it waited for the initial delay first and
\* made max_retries attempts of its own.
C34_Witness ==
    /\ cPrev # None
    /\ cPrev[1].test
    /\ cPrev[1].retry_delay > initial_delay
    /\ cPrev[1].attempt = max_retries - 1
    /\ cTest = ""
    /\ cpc = "done"
    /\ max_retries = 3
    /\ Len(outcomes) = 3
    /\ sleeps = <<initial_delay, 2 * initial_delay>>

\* The attempts of the call that raised SPARQLWrapperException and were not
\* the last one the call may make.
TransientNonFinal ==
    {i \in 1..Len(outcomes) : outcomes[i].kind = "transient" /\ i < max_retries}

\* C35: whatever the attempts of a call do, the call makes at most
\* max_retries attempts and is over once it has made that many, and it has
\* waited once for each attempt that failed transiently and was not the
\* last allowed one, so at most max_retries - 1 times.
C35_BoundedAttemptsAndWaits ==
    /\ queries = Len(outcomes)
    /\ Len(outcomes) <= max_retries
    /\ Len(outcomes) = max_retries => cpc = "done"
    /\ Len(sleeps) = Cardinality(TransientNonFinal)
    /\ Len(sleeps) <= max_retries - 1

\* A call of a client with two attempts whose attempts both failed
\* transiently: it is over after one wait.
C35_Witness ==
    /\ cpc = "done"
    /\ max_retries = 2
    /\ Len(outcomes) = 2
    /\ outcomes[1].kind = "transient"
    /\ outcomes[2].kind = "transient"
    /\ Len(sleeps) = 1

(***************************************************************************)
(* Properties of the mapper.                                               *)
(***************************************************************************)
\* The response is a mapping whose "results" section holds a non-empty
\* "bindings" sequence of mappings whose predicate and object entries, where
\* present, are mappings.
ShapeOk(r) ==
    /\ HasBindingsList(r)
    /\ BindingsOf(r) # <<>>
    /\ \A i \in 1..Len(BindingsOf(r)) :
          /\ BindingsOf(r)[i].t = "dict"
          /\ \A key \in {"predicate", "object"} :
                DictHas(BindingsOf(r)[i], key) => DictGet(BindingsOf(r)[i], key).t = "dict"

\* The text the response gives for a field: the object value of its last
\* binding whose predicate names the field; None when it has none.
Yielded(r, field) == ExtractData(r, "").data[field]

\* The response yields a timestamp text that parses.
YieldsParseableTimestamp(r) ==
    /\ Yielded(r, "timestamp") # None
    /\ parse_timestamp(Yielded(r, "timestamp")[1]).ok

\* One of discharge, water level, water temperature is non-null after
\* coercion.
YieldsMeasurement(r) ==
    \E f \in {"discharge", "water_level", "water_temperature"} :
        parse_decimal(Yielded(r, f)) # None

\* None of discharge, water level, water temperature coerces to a number
\* that is not finite (NaN, Infinity).
MeasurementsFinite(r) ==
    \A f \in {"discharge", "water_level", "water_temperature"} :
        DecimalField(Yielded(r, f)).ok

\* The response gives no danger level, or one that reads as an integer
\* within 0..5.
DangerLevelAcceptable(r) ==
    \/ Yielded(r, "danger_level") = None
    \/ /\ Join(Yielded(r, "danger_level")[1]) \in IntTexts
       /\ IntOf(Join(Yielded(r, "danger_level")[1])) \in 0..5

\* The response without its isLiter bindings.
WithoutLiter(r) ==
    ResultsOf(PyList(SelectRows(BindingsOf(r),
        {i \in 1..Len(BindingsOf(r)) :
            BindingValue(BindingsOf(r)[i], "predicate").value # Some(IsLiterUri)}, 1)))

\* C10 as claimed: process_results returns a Measurement exactly when the
\* response yields a parseable timestamp and one of discharge, water level,
\* water temperature is non-null after coercion, whatever the danger level.
C10_AsClaimed ==
    (mpc = "mapped" /\ ShapeOk(mResponse)) =>
        (mOutcome.kind = "record"
            <=> (YieldsParseableTimestamp(mResponse) /\ YieldsMeasurement(mResponse)))

\* C10 as amended: process_results returns a Measurement exactly when the
\* response yields a parseable timestamp, one of discharge, water level,
\* water temperature is non-null after coercion, none of the three coerces
\* to a number that is not finite, and the danger level, when the response
\* gives one, is an integer within 0..5; it returns None in every
\* other case of a response of the shape above, and no Measurement for a
\* response of another shape; and leaving out the liter flag changes nothing
\* of this.
C10_AcceptedIff ==
    /\ (mpc = "mapped" /\ ShapeOk(mResponse)) =>
          /\ mOutcome.kind = "record"
                <=> (/\ YieldsParseableTimestamp(mResponse)
                     /\ YieldsMeasurement(mResponse)
                     /\ MeasurementsFinite(mResponse)
                     /\ DangerLevelAcceptable(mResponse))
          /\ mOutcome.kind \in {"record", "none"}
          /\ process_results(WithoutLiter(mResponse), mStation).kind = mOutcome.kind
    /\ (mpc = "mapped" /\ ~ShapeOk(mResponse)) => mOutcome.kind # "record"

\* A response with a timestamp, a discharge and danger level 3 gave a
\* Measurement.
C10_Witness ==
    /\ mpc = "mapped"
    /\ ShapeOk(mResponse)
    /\ Len(BindingsOf(mResponse)) = 3
    /\ mOutcome.kind = "record"
    /\ mOutcome.m[1].danger_level = Some(3)
    /\ mOutcome.m[1].discharge = Some([dec |-> "123.45"])
    /\ mOutcome.m[1].timestamp = [wall |-> "2024-01-15T10:30:00", off |-> "+00:00"]

\* C11 as claimed: for a response that is empty or malformed (not of the
\* shape above), process_results returns None and raises nothing to its
\* caller.
C11_AsClaimed ==
    (mpc = "mapped" /\ ~ShapeOk(mResponse)) => mOutcome.kind = "none"

(***************************************************************************)
(* Properties of remove_duplicates and of the store's error handling.      *)
(***************************************************************************)
\* The (timestamp, station) pair of a stored row, as the file holds it.
PairOf(row) == <<row[1], row[2]>>

\* The rows whose pair no earlier row has, in their order.
FirstOccurrences(rows) ==
    SelectRows(rows, {i \in 1..Len(rows) : \A j \in 1..(i - 1) : PairOf(rows[j]) # PairOf(rows[i])}, 1)

\* The last call was a remove_duplicates that found the file and met no
\* error.
Deduplicated == lastOp = "remove_duplicates" /\ preLines # <<>> /\ lastExc = ""

\* C12 as claimed: a remove_duplicates that meets no error leaves in the file
\* exactly the first row of each (timestamp, station) pair, with its values
\* and in the old order, and returns the number of rows it removed.
C12_AsClaimed ==
    Deduplicated =>
        /\ DataRows(fileLines) = FirstOccurrences(DataRows(preLines))
        /\ lastRet = Len(DataRows(preLines)) - Len(DataRows(fileLines))

\* The rows of a file whose timestamp and station cells are both non-empty.
KeyedRows(rows) ==
    SelectRows(rows, {i \in 1..Len(rows) : rows[i][1] # "" /\ rows[i][2] # ""}, 1)

\* C13 as claimed: after a remove_duplicates that found the file and could
\* read it, the index is the set of keys of the rows in the file.
C13_AsClaimed ==
    Deduplicated => processed_keys = KeysOfRows(DataRows(fileLines))

\* C13 as amended: a remove_duplicates that removed a row leaves as index the
\* keys of the rows of the rewritten file whose timestamp and station cells
\* are non-empty, whatever the index held; one that removed none leaves the
\* index as it was.
C13_ResyncWhenRemoved ==
    /\ (Deduplicated /\ lastRet > 0) =>
          processed_keys = KeysOfRows(KeyedRows(DataRows(fileLines)))
    /\ (Deduplicated /\ lastRet = 0) => processed_keys = preKeys

\* remove_duplicates removed a row while the index held a key of no row.
C13_Witness ==
    /\ Deduplicated
    /\ lastRet > 0
    /\ preKeys # processed_keys
    /\ processed_keys # {}

\* No two of the rows share their (timestamp, station) pair.
NoSharedPair(rows) ==
    \A i, j \in 1..Len(rows) : PairOf(rows[i]) = PairOf(rows[j]) => i = j

C26_AsClaimed ==
    (mpc = "mapped" /\ ShapeOk(mResponse)) =>
        /\ (YieldsParseableTimestamp(mResponse) /\ DangerLevelAcceptable(mResponse))
              => MeasurementInit(ExtractData(mResponse, mStation).data).ok
        /\ ~YieldsParseableTimestamp(mResponse) => mOutcome.kind = "none"
        /\ mOutcome.kind = "record" => mOutcome.m[1].timestamp.wall \in WallClockTexts

\* The request build_query is given fails a precondition: the site code is
\* empty, is no integer, is an integer outside 1..9999, or the parameters
\* list is empty.
InvalidRequest(params) ==
    \/ params.site_code = ""
    \/ ~IntParses(params.site_code)
    \/ IntValue(params.site_code) \notin 1..9999
    \/ params.parameters = <<>>

\* C20 as claimed: build_query raises ValueError exactly for a request that
\* fails a precondition, and returns a query for every other request.
C20_AsClaimed ==
    bpc = "built" =>
        /\ (bOutcome.kind = "raise" /\ bOutcome.error.exc = "ValueError")
               <=> InvalidRequest(bParams)
        /\ ~InvalidRequest(bParams) => bOutcome.kind = "query"

\* C21 as claimed: for every request that passes the preconditions, also one
\* made from a parameters list that was passed in, build_query returns one
\* query whose subject is the base URL, "/river/observation/" and the site
\* code, and whose filter names the URIs of the requested parameters in the
\* order of the request.
C21_AsClaimed ==
    (bpc = "built" /\ ~InvalidRequest(bParams)) =>
        /\ bOutcome.kind = "query"
        /\ bOutcome.query.subject =
              <<LINDAS_BASE_URL, "/river/observation/", bParams.site_code>>
        /\ bOutcome.query.predicates =
              [i \in 1..Len(bParams.parameters) |->
                  ParameterUri(bParams.parameters[i].value)]

\* The Measurement field that holds the value of a Parameter.
RecordField(name) ==
    CASE name = "station" -> "station_id"
      [] name = "discharge" -> "discharge"
      [] name = "measurementTime" -> "timestamp"
      [] name = "waterLevel" -> "water_level"
      [] name = "dangerLevel" -> "danger_level"
      [] name = "waterTemperature" -> "water_temperature"
      [] name = "isLiter" -> "is_liter"

\* The Parameters a query was built for.
Requested == {bParams.parameters[i].value : i \in 1..Len(bParams.parameters)}

\* C24 as claimed: the mapper translates the URI that the builder emits for
\* a Parameter, whichever it is, to the field of that Parameter.
C24_AsClaimed ==
    (bpc = "built" /\ bOutcome.kind = "query") =>
        \A i \in 1..Len(bParams.parameters) :
            map_predicate_to_field(bOutcome.query.predicates[i])
                = Some(RecordField(bParams.parameters[i].value))

\* C24 as amended: the mapper translates the URI that the builder emits for
\* a Parameter other than station to the field of that Parameter, and the
\* URI emitted for station to no field.
C24_AgreeExceptStation ==
    (bpc = "built" /\ bOutcome.kind = "query") =>
        \A i \in 1..Len(bParams.parameters) :
            map_predicate_to_field(bOutcome.query.predicates[i])
                = IF bParams.parameters[i].value = "station" THEN None
                  ELSE Some(RecordField(bParams.parameters[i].value))

\* A query was built for all seven Parameters.
C24_Witness ==
    /\ bpc = "built"
    /\ bOutcome.kind = "query"
    /\ Len(bOutcome.query.predicates) = 7
    /\ Requested = {ParameterNames[i] : i \in 1..Len(ParameterNames)}

(***************************************************************************)
(* Properties of the run.                                                  *)
(***************************************************************************)
\* The positions in rEvents of the calls op made for the station at pos.
CallsOf(op, pos) == {i \in DOMAIN rEvents : rEvents[i].op = op /\ rEvents[i].pos = pos}

\* run() has returned and nothing interrupted the process.
RunReturned == rpc \in {"ran", "slept", "cleaned"} \/ (rpc = "exited" /\ rEnding = "completed")

\* The connectivity test of this run succeeded.
Connected == \E i \in DOMAIN rEvents :
                 rEvents[i].op = "test_connection" /\ rEvents[i].out = "True"

\* The station at pos was processed: build_query was called for it, and the
\* query was executed when build_query returned one.
Processed(pos) ==
    /\ CallsOf("build", pos) # {}
    /\ \A i \in CallsOf("build", pos) :
          rEvents[i].out = "query" => \E j \in CallsOf("query", pos) : j > i

Failed(pos) ==
    \/ \E i \in CallsOf("build", pos) : rEvents[i].out # "query"
    \/ \E i \in CallsOf("query", pos) : rEvents[i].out # "results"
    \/ \E i \in CallsOf("map", pos) : rEvents[i].out # "Measurement"

\* The stations for which process_results returned a Measurement, in the
\* order of the configuration.
RECURSIVE CollectedUpTo(_)
CollectedUpTo(n) ==
    IF n = 0 THEN <<>>
    ELSE IF \E i \in CallsOf("map", n) : rEvents[i].out = "Measurement"
         THEN Append(CollectedUpTo(n - 1), n)
         ELSE CollectedUpTo(n - 1)

\* The positions in rEvents of the calls of save_measurements.
Saves == CallsOf("save", 0)

\* C17: a failure in one station affects that station only: once run() has
\* returned from its loop, every station configured after a failed one has
\* been processed, and the Measurements collected from the other stations
\* have been passed to save_measurements, all of them in one call.
C17_FailureStaysInStation ==
    (RunReturned /\ Connected) =>
        /\ \A pos \in DOMAIN rSites :
              Failed(pos) => \A later \in DOMAIN rSites : later > pos => Processed(later)
        /\ CollectedUpTo(Len(rSites)) # <<>> =>
              \E i \in Saves : rEvents[i].arg = CollectedUpTo(Len(rSites))

\* The first of two stations raised in build_query, the second gave a
\* Measurement, and save_measurements was called with that Measurement.
C17_Witness ==
    /\ RunReturned
    /\ Len(rSites) = 2
    /\ rErrors = 1
    /\ \E i \in CallsOf("build", 1) : rEvents[i].out = "AttributeError"
    /\ \E i \in Saves : rEvents[i].arg = <<2>>

\* The calls made for stations.
SiteCalls == {i \in DOMAIN rEvents : rEvents[i].op \in {"build", "query", "map"}}

\* C18 as claimed: the Measurement of a station has been saved before the
\* query of the next station begins.
C18_AsClaimed ==
    \A i, j \in SiteCalls :
        (/\ rEvents[i].op = "map" /\ rEvents[i].out = "Measurement"
         /\ rEvents[j].op = "build" /\ rEvents[j].pos > rEvents[i].pos)
        => \E k \in Saves : i < k /\ k < j

\* The rank of a call within the processing of one station.
StageOf(op) == CASE op = "build" -> 1 [] op = "query" -> 2 [] op = "map" -> 3

\* C18 as amended: stations are processed one after another in configured
\* order, each station's query and mapping are complete before the next
\* station's query begins, and the Measurements of all stations are saved in
\* one call of save_measurements after the last station.
C18_SequentialThenOneSave ==
    /\ \A i \in SiteCalls :
          /\ rEvents[i].pos \in DOMAIN rSites
          /\ rEvents[i].site = rSites[rEvents[i].pos]
    /\ \A i, j \in SiteCalls :
          i < j => \/ rEvents[i].pos < rEvents[j].pos
                   \/ /\ rEvents[i].pos = rEvents[j].pos
                      /\ StageOf(rEvents[i].op) < StageOf(rEvents[j].op)
    /\ Cardinality(Saves) <= 1
    /\ \A k \in Saves :
          /\ \A i \in SiteCalls : i < k
          /\ \A pos \in DOMAIN rSites : CallsOf("build", pos) # {}

\* Two different stations both gave a Measurement and one call of
\* save_measurements got both.
C18_Witness ==
    /\ Len(rSites) = 2
    /\ rSites[1] # rSites[2]
    /\ \E k \in Saves : rEvents[k].arg = <<1, 2>>

\* The positions in rEvents of the de-duplication passes.
Passes == CallsOf("remove_duplicates", 0)

\* C19: an execution of main() that ends without an interrupt and without a
\* fatal error ran exactly one de-duplication pass, after every call of the
\* scrape cycle; a pass never precedes a call of the scrape cycle; and the
\* exit status is non-zero exactly when an interrupt or a fatal error ended
\* the execution.
C19_OnePassAfterRun ==
    /\ \A i \in Passes : \A j \in DOMAIN rEvents : j # i => j < i /\ j \notin Passes
    /\ Passes # {} => rpc \in {"cleaned", "exited"}
    /\ rpc = "exited" =>
          /\ rEnding = "completed" => Cardinality(Passes) = 1
          /\ rExit # 0 <=> rEnding \in {"KeyboardInterrupt", "Exception"}

\* main() returned with exit status 0 after a run that saved a Measurement
\* and a de-duplication pass whose error clean_duplicates caught.
C19_Witness ==
    /\ rpc = "exited" /\ rEnding = "completed" /\ rExit = 0
    /\ Saves # {}
    /\ \E i \in Passes : rEvents[i].out = "Exception"

\* The calls that write to the file.
FileWrites == {i \in DOMAIN rEvents : rEvents[i].op \in {"save", "remove_duplicates"}}

\* C36: run() calls save_measurements at most once, after the calls made for
\* every configured station, with a non-empty list that holds the stations'
\* Measurements in the order of the configuration; a run whose connectivity
\* test failed or whose stations gave no Measurement does not call it, and
\* nothing has written to the file when such a run returns.
C36_OneSaveInStationOrder ==
    /\ Cardinality(Saves) <= 1
    /\ \A k \in Saves :
          /\ Connected
          /\ \A pos \in DOMAIN rSites : \E i \in CallsOf("build", pos) : i < k
          /\ \A i \in SiteCalls : i < k
          /\ rEvents[k].arg # <<>>
          /\ rEvents[k].arg = CollectedUpTo(Len(rSites))
          /\ \A a, b \in DOMAIN rEvents[k].arg :
                a < b => rEvents[k].arg[a] < rEvents[k].arg[b]
    /\ (~Connected \/ CollectedUpTo(Len(rSites)) = <<>>) => Saves = {}
    /\ (rpc = "ran" /\ Saves = {}) => FileWrites = {}

\* A run of two stations that both gave a Measurement has returned after
\* one call of save_measurements, its last call, with the Measurement of
\* the first station before that of the second.
C36_Witness ==
    /\ rpc = "ran"
    /\ Len(rSites) = 2
    /\ \E i \in CallsOf("map", 1) : rEvents[i].out = "Measurement"
    /\ \E i \in CallsOf("map", 2) : rEvents[i].out = "Measurement"
    /\ Cardinality(Saves) = 1
    /\ \A k \in Saves : k = Len(rEvents) /\ rEvents[k].arg = <<1, 2>>

(***************************************************************************)
(* Properties of the record count, the index and the rows of the store.    *)
(***************************************************************************)
\* C28 as claimed: get_record_count returns the number of data rows of the
\* file, the header line not counted, and 0 when the file is missing or
\* cannot be read.
C28_AsClaimed ==
    (lastOp = "count" /\ lastRaised = "") =>
        lastRet = IF fileExists /\ lastExc = "" THEN Len(DataRows(fileLines)) ELSE 0

C30_AsClaimed ==
    constructed =>
        /\ NoSharedPair(DataRows(fileLines))
        /\ (lastOp = "remove_duplicates" /\ lastRaised = "") => lastRet = 0

\* C31 as claimed: once an instance is constructed, whether the file was
\* absent, had no content or began with the header, the first line of the
\* file is the header, and it stays so after every save_measurements and
\* remove_duplicates.
C31_AsClaimed ==
    constructed => (fileLines # <<>> /\ fileLines[1] = CSV_COLUMNS)

\* Every Measurement of the list has its row among these lines.
AllStored(measurements, lines) ==
    \A k \in 1..Len(measurements) :
        \E i \in 1..Len(DataRows(lines)) : DataRows(lines)[i] = RowOf(measurements[k])

\* C32 as claimed: an instance constructed on a file that save_measurements
\* calls have written holds the keys of the rows of that file, each the key
\* of the Measurement the row was written for, so a save_measurements of
\* Measurements whose rows are in the file returns 0 and appends nothing.
C32_AsClaimed ==
    /\ lastOp = "init" => processed_keys = KeysOfRows(DataRows(fileLines))
    /\ \A i \in 1..Len(DataRows(fileLines)) :
          \A m \in StoredBefore :
              DataRows(fileLines)[i] = RowOf(m) => RowKey(DataRows(fileLines)[i]) = unique_key(m)
    /\ (lastOp = "save" /\ lastExc = "" /\ AllStored(lastArg, preLines)) =>
          (lastRet = 0 /\ fileLines = preLines)

\* The positions of the Measurements of the last save_measurements that were
\* new: the key was not in the index and no earlier Measurement of the list
\* has it.
NewAt ==
    {k \in 1..Len(lastArg) :
        /\ unique_key(lastArg[k]) \notin preKeys
        /\ \A h \in 1..(k - 1) : unique_key(lastArg[h]) # unique_key(lastArg[k])}

SavedRow ==
    /\ lastOp = "save"
    /\ lastExc = ""
    /\ mpc = "mapped"
    /\ mOutcome.kind = "record"
    /\ lastArg = <<mOutcome.m[1]>>
    /\ Len(fileLines) = Len(preLines) + 1

\* The cell of a value that may be null, given the text of a value.
CellOf(v, text) == IF v = None THEN "" ELSE text

\* C23: the row that save_measurements appends for a Measurement holds, in
\* this order, the ISO-8601 text of its timestamp, its station, and its
\* discharge, water level, danger level, water temperature and liter flag,
\* each empty when null; for the response measurementTime
\* 2024-01-15T10:30:00Z, discharge 123.45 of station 2044 the row is
\* 2024-01-15T10:30:00+00:00,2044,123.45,,,,
C23_RowOfRecord ==
    SavedRow =>
        LET m == mOutcome.m[1]
            row == fileLines[Len(fileLines)]
        IN  /\ row = <<m.timestamp.wall \o m.timestamp.off,
                       m.station_id,
                       CellOf(m.discharge, "123.45"),
                       CellOf(m.water_level, "456.78"),
                       CellOf(m.danger_level, IF m.danger_level = Some(3) THEN "3" ELSE "5"),
                       CellOf(m.water_temperature, "15.5"),
                       CellOf(m.is_liter, "true")>>
            /\ Len(BindingsOf(mResponse)) = 2 /\ m.timestamp.off = "+00:00"
                  => row = <<"2024-01-15T10:30:00+00:00", "2044", "123.45", "", "", "", "">>

\* The response with measurementTime 2024-01-15T10:30:00Z and discharge
\* 123.45 was mapped for station 2044 and its row appended.
C23_Witness ==
    /\ SavedRow
    /\ mStation = "2044"
    /\ mResponse = ResultsOf(PyList(
            <<Binding(DimensionUri("measurementTime"), <<"2024-01-15T10:30:00", "Z">>),
              Binding(DimensionUri("discharge"), <<"123.45">>)>>))
    /\ fileLines = <<CSV_COLUMNS,
                     <<"2024-01-15T10:30:00+00:00", "2044", "123.45", "", "", "", "">> >>

\* The data rows of the file whose timestamp and station cells are these.
RowsOf(timestamp, station) ==
    {i \in 2..Len(fileLines) : fileLines[i][1] = timestamp /\ fileLines[i][2] = station}

\* The timestamp text was among those whose Measurement was saved.
WasSaved(text) == \E i \in 1..Len(mSaved) : mSaved[i] = text

\* C25: a response whose timestamp ends in "Z" gives a Measurement with the
\* timestamp and the key of the same wall-clock time at offset +00:00, and
\* when the Measurements of both spellings were saved for the station, with
\* no I/O error, the file holds exactly one row for them.
C25_ZuluIsUtc ==
    /\ \A w \in WallClockTexts :
          (/\ mpc = "mapped"
           /\ Yielded(mResponse, "timestamp") = Some(<<w, "Z">>)
           /\ DangerLevelAcceptable(mResponse))
          => /\ mOutcome.kind = "record"
             /\ mOutcome.m[1].timestamp = [wall |-> w, off |-> "+00:00"]
             /\ unique_key(mOutcome.m[1]) = w \o "+00:00" \o "_" \o mStation
    /\ \A w \in WallClockTexts :
          (~ioFailed /\ WasSaved(<<w, "Z">>) /\ WasSaved(<<w, "+00:00">>))
          => Cardinality(RowsOf(w \o "+00:00", "2044")) = 1

\* The Measurement of the "Z" spelling was saved, then that of the "+00:00"
\* spelling, which appended nothing.
C25_Witness ==
    /\ ~ioFailed
    /\ mSaved = << <<"2024-01-15T10:30:00", "Z">>, <<"2024-01-15T10:30:00", "+00:00">> >>
    /\ lastOp = "save"
    /\ lastRet = 0
    /\ Len(fileLines) = 2

\* C27: a response with a danger level outside 0..5 gives no Measurement, so
\* every Measurement that process_results returns has a danger level that is
\* null or within 0..5, and so has every row that save_measurements wrote.
C27_DangerLevelInRange ==
    /\ mpc = "mapped" =>
          /\ ~DangerLevelAcceptable(mResponse) => mOutcome.kind = "none"
          /\ mOutcome.kind = "record" =>
                \/ mOutcome.m[1].danger_level = None
                \/ mOutcome.m[1].danger_level[1] \in 0..5
    /\ \A i \in 2..Len(fileLines) : fileLines[i][5] \in {"", "0", "1", "2", "3", "4", "5"}

\* A row with danger level 3 is in the file and a response with danger level
\* 7 has just been mapped to None.
C27_Witness ==
    /\ mpc = "mapped"
    /\ Yielded(mResponse, "danger_level") = Some(<<"7">>)
    /\ mOutcome.kind = "none"
    /\ \E i \in 2..Len(fileLines) : fileLines[i][5] = "3"

====
